---- MODULE Spec2Model ----
(***************************************************************************)
(* A model of libwebcash (lib/webcash.c and its public header).            *)
(*                                                                         *)
(* Conventions.                                                            *)
(*  - A byte string (bstring, C string, buffer) is a sequence of byte      *)
(*    values 0..255; characters are their ASCII codes.  NULLSTR is the     *)
(*    model value of a null bstring pointer.                               *)
(*  - TLC integers are 32 bits wide, the program's amounts are 64 bits     *)
(*    wide.  A 64-bit magnitude is therefore kept as its sequence of       *)
(*    decimal digits, most significant first, without leading zeros (zero  *)
(*    is <<0>>); the operators Nat* compute on that form and the 64-bit    *)
(*    width is enforced by Wrap64.  A signed amount (wc_amount_t) is a     *)
(*    record [neg, mag].                                                   *)
(***************************************************************************)
EXTENDS Integers, Sequences, FiniteSets, TLC

VARIABLES
    \* ---- amount codec harness (test_cstring and the round trip) ----
    apc,            \* position of the amount codec scenario
    amount,         \* the wc_amount_t handed to wc_to_bstring
    str,            \* the C string / bstring handed to the parser
    bstr,           \* the bstring returned by wc_to_bstring
    amt2,           \* caller's amount output slot of the parser
    noncanonical2,  \* caller's noncanonical output slot of the parser
    aerr,           \* error code returned by the parser
    \* ---- claim code harness (wc_secret_string and wc_public_string) ----
    cpc,            \* position of the claim code scenario
    secret,         \* the wc_secret_t handed to wc_secret_to_string
    pub,            \* the wc_public_t handed to wc_public_to_string
    cbstr,          \* the claim code string
    secret2,        \* the wc_secret_t slot wc_secret_parse writes
    pub2,           \* the wc_public_t slot wc_public_parse writes
    cnoncanonical,  \* caller's noncanonical output slot of the claim code parsers
    cerr,           \* error code returned by the last claim code call
    \* ---- serial derivation harness (test wc_derive_serials) ----
    dpc,            \* position of the derivation scenario
    dargs,          \* hdroot, chaincode, depth and count of the test
    buf1,           \* the buffer handed to wc_derive_serials
    dblocks,        \* blocks[] of wc_derive_serials as the call left it
    dbatches,       \* history: per sha256_midstate call, its m and the lanes hashed
    dn,             \* loop counter n of the test
    dsingle,        \* history: the wc_derive_serial results so far, concatenated
    dbuf,           \* buf[] of the last wc_derive_serial as the call left it
    dserr,          \* what the last wc_derive_serial returned
    \* ---- wallet application ----
    wpc,            \* position of the application in the life of a wallet
    host,           \* the host: callback tables, time zone, terms database
    app,            \* the facade handles the application holds
    appWallet,      \* the struct wc_wallet the application holds
    wcall,          \* the last library call and what it did
    wghost,         \* history kept for the properties
    \* ---- terms storage harness (test wc_storage_terms) ----
    spc,            \* position of the terms storage scenario
    sw,             \* the wc_storage_handle_t the test holds
    shost,          \* the host: time zone and the g_terms map
    scall,          \* the last storage call and what it reported
    \* ---- library initialisation and concurrent derivations (wc_init) ----
    mpc,            \* per thread: the statement it is about to execute
    midstate,       \* the static webcashwalletv1_midstate
    mtag,           \* per thread: the local webcashwalletv1_tag of its wc_init
    mobs,           \* per thread: what its last derivation read from the midstate
    mdone,          \* number of wc_init calls that have returned
    mcalls,         \* per thread: number of calls begun
    \* ---- 8-way mining finalizer (wc_mining_8way) ----
    mnpc,           \* position of the mining scenario
    mnargs,         \* *ctx, nonce1, nonce2 and final when the call is made
    mnctx,          \* the caller's struct sha256_ctx
    mnhashes,       \* the hashes[8*32] buffer of the caller
    mnblocks,       \* blocks[] of wc_mining_8way as the call left it
    \* ---- secret slot ownership (wc_secret_new ... wc_secret_destroy on one slot) ----
    slot,           \* the wc_secret_t of the application: amount and serial pointer
    heap,           \* every bstring allocated so far: text, validity, times released
    hnd,            \* the bstring variable of the application
    sop,            \* the call made last
    sarg,           \* which string that call was given
    serr,           \* what that call returned
    sprev,          \* slot, heap and hnd before that call
    \* ---- in-place conversion of wc_storage_enumerate_terms ----
    epc,            \* position of the conversion scenario
    eargs,          \* the layout of the two structures, what all_terms answers, and the buffer argument
    emem,           \* the array of the caller, cell by cell
    eres            \* what the call returned, the releases it made and the overwrites observed

amountVars == <<apc, amount, str, bstr, amt2, noncanonical2, aerr>>
claimVars == <<cpc, secret, pub, cbstr, secret2, pub2, cnoncanonical, cerr>>

deriveVars == <<dpc, dargs, buf1, dblocks, dbatches, dn, dsingle, dbuf, dserr>>

walletVars == <<wpc, host, app, appWallet, wcall, wghost>>
storageVars == <<spc, sw, shost, scall>>

midstateVars == <<mpc, midstate, mtag, mobs, mdone, mcalls>>

miningVars == <<mnpc, mnargs, mnctx, mnhashes, mnblocks>>

slotVars == <<slot, heap, hnd, sop, sarg, serr, sprev>>

inplaceVars == <<epc, eargs, emem, eres>>

vars == <<amountVars, claimVars, deriveVars, walletVars, storageVars, midstateVars, miningVars, slotVars, inplaceVars>>
notAmountVars == <<claimVars, deriveVars, walletVars, storageVars, midstateVars, miningVars, slotVars, inplaceVars>>
notClaimVars == <<amountVars, deriveVars, walletVars, storageVars, midstateVars, miningVars, slotVars, inplaceVars>>
notDeriveVars == <<amountVars, claimVars, walletVars, storageVars, midstateVars, miningVars, slotVars, inplaceVars>>
notWalletVars == <<amountVars, claimVars, deriveVars, storageVars, midstateVars, miningVars, slotVars, inplaceVars>>
notStorageVars == <<amountVars, claimVars, deriveVars, walletVars, midstateVars, miningVars, slotVars, inplaceVars>>
notMidstateVars == <<amountVars, claimVars, deriveVars, walletVars, storageVars, miningVars, slotVars, inplaceVars>>
notMiningVars == <<amountVars, claimVars, deriveVars, walletVars, storageVars, midstateVars, slotVars, inplaceVars>>
notSlotVars == <<amountVars, claimVars, deriveVars, walletVars, storageVars, midstateVars, miningVars, inplaceVars>>
notInplaceVars == <<amountVars, claimVars, deriveVars, walletVars, storageVars, midstateVars, miningVars, slotVars>>

\* a null bstring pointer (no byte has the value -1)
NULLSTR == <<-1>>

(***************************************************************************)
(* wc_error_t                                                              *)
(***************************************************************************)
WC_SUCCESS == 0
WC_ERROR_INVALID_ARGUMENT == 1
WC_ERROR_INSUFFICIENT_CAPACITY == 2
WC_ERROR_OUT_OF_MEMORY == 3
WC_ERROR_OVERFLOW == 4
WC_ERROR_DB_CLOSED == 5
WC_ERROR_DB_OPEN_FAILED == 6
WC_ERROR_DB_CORRUPT == 7
WC_ERROR_LOG_OPEN_FAILED == 8
WC_ERROR_NOT_CONNECTED == 9
WC_ERROR_CONNECT_FAILED == 10
WC_ERROR_HEADLESS == 11
WC_ERROR_STARTUP_FAILED == 12
WC_ERROR_UNKNOWN == 13

(***************************************************************************)
(* Characters                                                              *)
(***************************************************************************)
CH_QUOTE == 34
CH_MINUS == 45
CH_DOT == 46
CH_0 == 48
CH_9 == 57
CH_COLON == 58
CH_A == 65
CH_F == 70
CH_a == 97
CH_e == 101
CH_f == 102

isdigit(c) == c >= CH_0 /\ c <= CH_9

Max(a, b) == IF a >= b THEN a ELSE b
Min(a, b) == IF a <= b THEN a ELSE b

\* F(v) with v evaluated once: a local variable of the C code
Bind(v, F(_)) == CHOOSE r \in {F(x) : x \in {v}} : TRUE

(***************************************************************************)
(* Unsigned arithmetic on decimal digit sequences.                         *)
(***************************************************************************)
\* the value without its leading zeros; the empty sequence reads as zero
NatNorm(d) ==
    LET nz == {i \in 1..Len(d) : d[i] # 0}
    IN  IF nz = {} THEN <<0>>
        ELSE SubSeq(d, CHOOSE i \in nz : \A j \in nz : i <= j, Len(d))

\* digit of weight 10^i (0 = units); 0 beyond the most significant digit
NatDigit(d, i) == IF i < Len(d) THEN d[Len(d) - i] ELSE 0

\* a < b on the digits from position i on, for Len(a) = Len(b)
NatLexLess(a, b, i) ==
    \E j \in i..Len(a) : a[j] < b[j] /\ \A k \in i..(j - 1) : a[k] = b[k]

\* a < b
NatLess(a, b) ==
    IF Len(a) # Len(b) THEN Len(a) < Len(b) ELSE NatLexLess(a, b, 1)

\* a > b
NatGreater(a, b) == NatLess(b, a)

\* digits of a + b + carry from weight 10^i upwards
AddFrom(a, b, i, carry) ==
    LET n == Max(Len(a), Len(b))
        sum(m) == NatDigit(a, m) + NatDigit(b, m)
        \* the carry into weight 10^j
        c(j) == IF \/ \E k \in i..(j - 1) :
                        sum(k) >= 10 /\ \A m \in (k + 1)..(j - 1) : sum(m) = 9
                   \/ carry = 1 /\ \A m \in i..(j - 1) : sum(m) = 9
                THEN 1 ELSE 0
    IN  (IF c(n) = 0 THEN <<>> ELSE <<1>>)
        \o SubSeq([k \in 1..(n - i) |-> (sum(n - k) + c(n - k)) % 10], 1, n - i)

NatAdd(a, b) == NatNorm(AddFrom(a, b, 0, 0))

\* digits of a - b - borrow from weight 10^i upwards, for a >= b
SubFrom(a, b, i, borrow) ==
    LET n == Len(a)
        \* the borrow out of the weights below 10^j
        br(j) == IF \/ \E k \in i..(j - 1) :
                         /\ NatDigit(a, k) < NatDigit(b, k)
                         /\ \A m \in (k + 1)..(j - 1) : NatDigit(a, m) = NatDigit(b, m)
                    \/ borrow = 1 /\ \A m \in i..(j - 1) : NatDigit(a, m) = NatDigit(b, m)
                 THEN 1 ELSE 0
    IN  SubSeq([k \in 1..(n - i) |->
                   (NatDigit(a, n - k) - NatDigit(b, n - k) - br(n - k) + 10) % 10],
               1, n - i)

\* a - b, for a >= b
NatSub(a, b) == NatNorm(SubFrom(a, b, 0, 0))

NatMul10(a) == IF a = <<0>> THEN a ELSE Append(a, 0)

NatDiv10(a) == IF Len(a) <= 1 THEN <<0>> ELSE SubSeq(a, 1, Len(a) - 1)

UINT64_MAX == <<1,8,4,4,6,7,4,4,0,7,3,7,0,9,5,5,1,6,1,5>>
INT64_MAX == <<9,2,2,3,3,7,2,0,3,6,8,5,4,7,7,5,8,0,7>>
UINT64_MAX_DIV10 == <<1,8,4,4,6,7,4,4,0,7,3,7,0,9,5,5,1,6,1>>
TWO64 == <<1,8,4,4,6,7,4,4,0,7,3,7,0,9,5,5,1,6,1,6>>

\* reduction of a mathematical value to the uint64_t it leaves in a register
RECURSIVE Wrap64(_)
Wrap64(n) == IF NatGreater(n, UINT64_MAX) THEN Wrap64(NatSub(n, TWO64)) ELSE n

\* u64 *= 10
U64Mul10(u) == Wrap64(NatMul10(u))
\* u64 += d
U64Add(u, d) == Wrap64(NatAdd(u, <<d>>))
\* -u64 in unsigned arithmetic
U64Neg(u) == IF u = <<0>> THEN u ELSE NatSub(TWO64, u)

\* conversion of a uint64_t bit pattern to int64_t (two's complement)
ToInt64(u) ==
    IF NatGreater(u, INT64_MAX)
    THEN [neg |-> TRUE, mag |-> NatSub(TWO64, u)]
    ELSE [neg |-> FALSE, mag |-> u]

INT64_MIN_MAG == <<9,2,2,3,3,7,2,0,3,6,8,5,4,7,7,5,8,0,8>>
INT64_MIN == [neg |-> TRUE, mag |-> INT64_MIN_MAG]

\* a small integer as a wc_amount_t
AmountOf(n) == [neg |-> FALSE, mag |-> <<n>>]


(***************************************************************************)
(* Amount codec: wc_from_cstring, wc_from_bstring, wc_to_bstring           *)
(***************************************************************************)
WC_AMOUNT_SCALE_DIGITS == 8   \* WC_AMOUNT_SCALE = 10^8
FORMAT_FRAC_WIDTH == 8        \* "%08" PRId64
PARSE_FRAC_DIGITS == 8        \* "Read up to eight digits"

\* decimal digits as ASCII characters (what "%" PRId64 prints for a value >= 0)
Dec(d) == [i \in 1..Len(d) |-> d[i] + CH_0]

Zeros(k) == [i \in 1..k |-> 0]

\* amount / WC_AMOUNT_SCALE and amount % WC_AMOUNT_SCALE, for amount >= 0
NatDivScale(mag) ==
    IF Len(mag) <= WC_AMOUNT_SCALE_DIGITS THEN <<0>>
    ELSE SubSeq(mag, 1, Len(mag) - WC_AMOUNT_SCALE_DIGITS)
NatModScale(mag) ==
    IF Len(mag) <= WC_AMOUNT_SCALE_DIGITS THEN mag
    ELSE NatNorm(SubSeq(mag, Len(mag) - WC_AMOUNT_SCALE_DIGITS + 1, Len(mag)))

\* mutant: the remainder printed without its leading zeros
DecPadded_NoPad(d, w) == Dec(d)

\* "%0<w>" PRId64 of a value >= 0: zero padded on the left to w characters
DecPadded(d, w) == IF Len(d) >= w THEN Dec(d) ELSE Dec(Zeros(w - Len(d)) \o d)

\* while (str->slen > 0 && str->data[str->slen - 1] == '0') btrunc(...):
\* the string up to its last character other than '0'
StripTrailingZeros(s) ==
    LET keep == {i \in 1..Len(s) : s[i] # CH_0}
    IN  IF keep = {} THEN <<>>
        ELSE SubSeq(s, 1, CHOOSE i \in keep : \A j \in keep : j <= i)

INT64_MIN_STR ==
    <<CH_MINUS>> \o Dec(<<9,2,2,3,3,7,2,0,3,6,8>>) \o <<CH_DOT>> \o Dec(<<5,4,7,7,5,8,0,8>>)

wc_to_bstring(a) ==
    IF a.neg /\ a = INT64_MIN THEN INT64_MIN_STR
    ELSE
    LET is_negative == a.neg
        abs == a.mag     \* amount = -amount
        quot == NatDivScale(abs)
        rem == NatModScale(abs)
        sign == IF is_negative THEN <<CH_MINUS>> ELSE <<>>
    IN  IF rem = <<0>> THEN sign \o Dec(quot)
        ELSE StripTrailingZeros(
                sign \o Dec(quot) \o <<CH_DOT>> \o DecPadded(rem, FORMAT_FRAC_WIDTH))

\* btfromcstr: the characters up to the terminating NUL
CStrLen(s, i) ==
    LET nul == {k \in i..Len(s) : s[k] = 0}
    IN  IF nul = {} THEN Max(Len(s), i - 1)
        ELSE (CHOOSE k \in nul : \A m \in nul : k <= m) - 1
CStr(s) == SubSeq(s, 1, CStrLen(s, 1))

\* mutant: the step without its overflow checks
AccumulateDigit_Unchecked(u64, d) ==
    [ovf |-> FALSE, u64 |-> U64Add(U64Mul10(u64), d)]

\* one overflow checked "u64 = u64 * 10 + digit" step of the parser
AccumulateDigit(u64, d) ==
    IF NatGreater(u64, UINT64_MAX_DIV10) THEN [ovf |-> TRUE, u64 |-> u64]
    ELSE Bind(U64Mul10(u64), LAMBDA m:
             IF NatGreater(m, NatSub(UINT64_MAX, <<d>>)) THEN [ovf |-> TRUE, u64 |-> m]
             ELSE [ovf |-> FALSE, u64 |-> U64Add(m, d)])

\* one overflow checked "u64 *= 10" step of the scaling loop
ScaleStep(u64) ==
    IF NatGreater(u64, UINT64_MAX_DIV10) THEN [ovf |-> TRUE, u64 |-> u64]
    ELSE [ovf |-> FALSE, u64 |-> U64Mul10(u64)]

\* where "pos != end && isdigit(*pos)" first fails from pos on
DigitRunEnd(s, pos) ==
    CHOOSE e \in pos..(Len(s) + 1) :
        /\ e = Len(s) + 1 \/ ~isdigit(s[e])
        /\ \A k \in pos..(e - 1) : isdigit(s[k])

\* the body of the integral loop at st.pos; nothing once the loop has
\* returned its error
ParseIntegralStep(s, st) ==
    IF st.err # WC_SUCCESS THEN st
    ELSE LET r == AccumulateDigit(st.u64, s[st.pos] - CH_0)
         IN  IF r.ovf THEN [st EXCEPT !.err = WC_ERROR_OVERFLOW]
             ELSE [st EXCEPT !.u64 = r.u64, !.pos = @ + 1]

\* n consecutive passes through the body, the first half before the second
RECURSIVE ParseIntegralRun(_, _, _)
ParseIntegralRun(s, st, n) ==
    IF n <= 0 THEN st
    ELSE IF n = 1 THEN ParseIntegralStep(s, st)
    ELSE Bind(ParseIntegralRun(s, st, n \div 2), LAMBDA half:
             ParseIntegralRun(s, half, n - (n \div 2)))

\* for (; pos != end && isdigit(*pos); ++pos)
ParseIntegral(s, st) == ParseIntegralRun(s, st, DigitRunEnd(s, st.pos) - st.pos)

\* the body of the fraction loop at st.pos; nothing once the loop has
\* returned its error
ParseFractionStep(s, st) ==
    IF st.err # WC_SUCCESS THEN st
    ELSE IF ~isdigit(s[st.pos]) THEN [st EXCEPT !.err = WC_ERROR_INVALID_ARGUMENT]
    ELSE LET f == IF s[st.pos] # CH_0 THEN 1 ELSE st.is_fractional
             r == AccumulateDigit(st.u64, s[st.pos] - CH_0)
         IN  IF r.ovf
             THEN [st EXCEPT !.err = WC_ERROR_OVERFLOW, !.is_fractional = f]
             ELSE [st EXCEPT !.u64 = r.u64, !.pos = @ + 1,
                             !.j = @ + 1, !.is_fractional = f]

\* n consecutive passes through the body, the first half before the second
RECURSIVE ParseFractionRun(_, _, _)
ParseFractionRun(s, st, n) ==
    IF n <= 0 THEN st
    ELSE IF n = 1 THEN ParseFractionStep(s, st)
    ELSE Bind(ParseFractionRun(s, st, n \div 2), LAMBDA half:
             ParseFractionRun(s, half, n - (n \div 2)))

\* for (; j < 8 && pos != end; ++j, ++pos): the guard holds for as many
\* passes as there are characters left, at most eight with j
ParseFraction(s, st) ==
    ParseFractionRun(s, st, Min(PARSE_FRAC_DIGITS - st.j, Len(s) + 1 - st.pos))

\* mutant: any digit may follow the eighth fractional digit
RECURSIVE ParseTrailing_AnyDigit(_, _)
ParseTrailing_AnyDigit(s, st) ==
    IF st.pos <= Len(s)
    THEN IF ~isdigit(s[st.pos]) THEN [st EXCEPT !.err = WC_ERROR_INVALID_ARGUMENT]
         ELSE ParseTrailing_AnyDigit(s, [st EXCEPT !.pos = @ + 1, !.is_noncanonical = 1])
    ELSE st

\* for (; pos != end; ++pos) { if (*pos != '0') return invalid; noncanonical }
RECURSIVE ParseTrailing(_, _)
ParseTrailing(s, st) ==
    IF st.pos <= Len(s)
    THEN IF s[st.pos] # CH_0 THEN [st EXCEPT !.err = WC_ERROR_INVALID_ARGUMENT]
         ELSE ParseTrailing(s, [st EXCEPT !.pos = @ + 1, !.is_noncanonical = 1])
    ELSE st

\* the body of the scaling loop; nothing once the loop has returned its
\* error
ScaleElidedStep(st) ==
    IF st.err # WC_SUCCESS THEN st
    ELSE LET r == ScaleStep(st.u64)
         IN  IF r.ovf THEN [st EXCEPT !.err = WC_ERROR_OVERFLOW, !.j = @ + 1]
             ELSE [st EXCEPT !.u64 = r.u64, !.j = @ + 1]

\* n consecutive passes through the body, the first half before the second
RECURSIVE ScaleElidedRun(_, _)
ScaleElidedRun(st, n) ==
    IF n <= 0 THEN st
    ELSE IF n = 1 THEN ScaleElidedStep(st)
    ELSE Bind(ScaleElidedRun(st, n \div 2), LAMBDA half:
             ScaleElidedRun(half, n - (n \div 2)))

\* while (j++ < 8) { overflow check; u64 *= 10; }
ScaleElided(st) == ScaleElidedRun(st, PARSE_FRAC_DIGITS - st.j)

\* the optional fractional portion: "if (pos != end) { ... }"
ParseFractional(s, st) ==
    IF st.pos > Len(s) THEN st
    ELSE IF s[st.pos] # CH_DOT THEN [st EXCEPT !.err = WC_ERROR_INVALID_ARGUMENT]
    ELSE
    LET p == st.pos + 1
        nc1 == IF p > Len(s) THEN 1 ELSE st.is_noncanonical
        nc2 == IF s[Len(s)] = CH_0 THEN 1 ELSE nc1
    IN  Bind(ParseFraction(s, [st EXCEPT !.pos = p, !.is_noncanonical = nc2]), LAMBDA s1:
        IF s1.err # WC_SUCCESS THEN s1
        ELSE Bind(ParseTrailing(s, s1), LAMBDA s2:
        IF s2.err # WC_SUCCESS THEN s2
        ELSE IF s2.is_fractional = 0 THEN [s2 EXCEPT !.is_noncanonical = 1]
        ELSE s2))

\* mutant: a zero before the decimal point taken for a leading zero
LeadingZeroFlag_AnyNext(s, p0) ==
    IF s[p0] = CH_0 /\ p0 + 1 <= Len(s) THEN 1 ELSE 0

\* "if (pos[0] == '0' && (pos + 1) != end && pos[1] != '.') is_noncanonical = 1"
LeadingZeroFlag(s, p0) ==
    IF s[p0] = CH_0 /\ p0 + 1 <= Len(s) /\ s[p0 + 1] # CH_DOT THEN 1 ELSE 0

\* "if (!u64 && is_negative) is_noncanonical = 1"
NegativeZeroFlag(u64, is_negative, nc) ==
    IF u64 = <<0>> /\ is_negative THEN 1 ELSE nc

\* the digits of the amount: integral part, fractional part, scaling
ParseDigits(s, st0) ==
    Bind(ParseIntegral(s, st0), LAMBDA st1:
    IF st1.err # WC_SUCCESS THEN st1
    ELSE Bind(ParseFractional(s, st1), LAMBDA st2:
    IF st2.err # WC_SUCCESS THEN st2
    ELSE ScaleElided(st2)))

\* mutant: a failing parse clears the outputs
ReturnError_Cleared(e, amt0, nc0) ==
    [err |-> e, amt |-> [neg |-> FALSE, mag |-> <<0>>], noncanonical |-> 0]

\* "return WC_ERROR_...;" before the two stores at the end of the parser
ReturnError(e, amt0, nc0) == [err |-> e, amt |-> amt0, noncanonical |-> nc0]

\* The parser proper.  amt0 and nc0 are the caller's *amt and *noncanonical
\* before the call; the result carries what they hold after it.
wc_from_bstring(amt0, nc0, s) ==
    LET fail(e) == ReturnError(e, amt0, nc0)
    IN
    IF s = NULLSTR THEN fail(WC_ERROR_INVALID_ARGUMENT)
    ELSE IF Len(s) = 0 THEN fail(WC_ERROR_INVALID_ARGUMENT)
    ELSE
    LET is_negative == (s[1] = CH_MINUS)
        p0 == IF is_negative THEN 2 ELSE 1
    IN
    IF is_negative /\ p0 > Len(s) THEN fail(WC_ERROR_INVALID_ARGUMENT)
    ELSE IF ~isdigit(s[p0]) THEN fail(WC_ERROR_INVALID_ARGUMENT)
    ELSE
    LET lead == LeadingZeroFlag(s, p0)
        st0 == [u64 |-> <<0>>, pos |-> p0, j |-> 0, is_noncanonical |-> lead,
                is_fractional |-> 0, err |-> WC_SUCCESS]
    IN
    Bind(ParseDigits(s, st0), LAMBDA st3:
    IF st3.err # WC_SUCCESS THEN fail(st3.err)
    ELSE IF is_negative /\ NatGreater(st3.u64, INT64_MIN_MAG)
         THEN fail(WC_ERROR_OVERFLOW)
    ELSE IF ~is_negative /\ NatGreater(st3.u64, INT64_MAX)
         THEN fail(WC_ERROR_OVERFLOW)
    ELSE
    [err |-> WC_SUCCESS,
     amt |-> ToInt64(IF is_negative THEN U64Neg(st3.u64) ELSE st3.u64),
     noncanonical |-> NegativeZeroFlag(st3.u64, is_negative, st3.is_noncanonical)])

wc_from_cstring(amt0, nc0, cstr) == wc_from_bstring(amt0, nc0, CStr(cstr))

(***************************************************************************)
(* Inputs of the amount codec scenarios                                    *)
(***************************************************************************)
MaxSigDigits == 3
MaxShift == 9
MaxPrefixLen == 3
MaxZeroRun == 8

SigDigitSet == {0, 1, 9}

RECURSIVE SeqsUpTo(_, _)
SeqsUpTo(S, n) ==
    IF n = 0 THEN {<<>>}
    ELSE LET shorter == SeqsUpTo(S, n - 1)
         IN  shorter \cup {Append(q, x) : q \in shorter, x \in S}

\* magnitudes: up to MaxSigDigits significant digits followed by up to
\* MaxShift zeros, and the values around the ends of the 64-bit range
MagnitudeSamples ==
    {NatNorm(q \o Zeros(k)) : q \in SeqsUpTo(SigDigitSet, MaxSigDigits), k \in 0..MaxShift}
    \cup {INT64_MAX, NatSub(INT64_MAX, <<1>>), NatSub(INT64_MAX, <<7>>),
          NatSub(INT64_MAX, <<5,4,7,7,5,8,0,7>>),
          <<1,2,3,4,5,6,7,8,0,0>>}

AmountSamples ==
    {[neg |-> FALSE, mag |-> m] : m \in MagnitudeSamples}
    \cup {[neg |-> TRUE, mag |-> m] : m \in MagnitudeSamples \ {<<0>>}}
    \cup {INT64_MIN}

PrefixAlphabet == {CH_MINUS, CH_DOT, CH_0, CH_0 + 1}
SuffixAlphabet == PrefixAlphabet \cup {CH_QUOTE}

\* a prefix, a run of '0' characters and at most one more character, and the
\* strings at the ends of the 64-bit range
StringSamples ==
    {p \o Dec(Zeros(k)) \o t :
        p \in SeqsUpTo(PrefixAlphabet, MaxPrefixLen),
        k \in 0..MaxZeroRun,
        t \in SeqsUpTo(SuffixAlphabet, 1)}
    \cup {INT64_MIN_STR,
          Dec(<<9,2,2,3,3,7,2,0,3,6,8>>) \o <<CH_DOT>> \o Dec(<<5,4,7,7,5,8,0,7>>),
          Dec(<<9,2,2,3,3,7,2,0,3,6,8>>) \o <<CH_DOT>> \o Dec(<<5,4,7,7,5,8,0,8>>),
          <<CH_MINUS>> \o Dec(<<9,2,2,3,3,7,2,0,3,6,8>>) \o <<CH_DOT>> \o Dec(<<5,4,7,7,5,8,0,9>>),
          Dec(<<1,8,4,4,6,7,4,4,0,7,3,7>>) \o <<CH_DOT>> \o Dec(<<0,9,5,5,1,6,1,5>>),
          Dec(<<1,8,4,4,6,7,4,4,0,7,3,7>>) \o <<CH_DOT>> \o Dec(<<0,9,5,5,1,6,1,6>>),
          Dec(UINT64_MAX), Dec(NatMul10(UINT64_MAX)),
          Dec(<<9,2,2,3,3,7,2,0,3,6,9>>),
          Dec(<<1,2>>) \o <<CH_DOT>> \o Dec(<<3,4,5,6,7,8>>),
          <<CH_QUOTE>> \o Dec(<<1>>) \o <<CH_DOT>> \o Dec(<<0>>) \o <<CH_QUOTE>>,
          Dec(NatMul10(UINT64_MAX)) \o <<CH_QUOTE>>,
          Dec(UINT64_MAX) \o <<CH_DOT>> \o Dec(<<9>>) \o <<CH_QUOTE>>,
          Dec(<<9,2,2,3,3,7,2,0,3,6,9>>) \o <<CH_QUOTE>>,
          Dec(<<1>>) \o <<CH_DOT>> \o Dec(<<2,3,4,5,6,7,8,9,0,0>>),
          Dec(<<1>>) \o <<CH_DOT>> \o Dec(<<2,3,4,5,6,7,8,9,1>>)}

\* the values the test harness presets its output slots to
AMT_UNSET == [neg |-> TRUE, mag |-> <<1>>]
NC_UNSET == -1
ERR_UNSET == -1

(***************************************************************************)
(* Amount codec scenarios.                                                 *)
(*   round trip:   amount --wc_to_bstring--> bstr --wc_from_bstring-->     *)
(*   test_cstring: str --wc_from_cstring--> amt2 --wc_to_bstring--> bstr   *)
(***************************************************************************)
InitAmountIdle ==
    /\ apc = "idle"
    /\ amount = AMT_UNSET
    /\ str = NULLSTR
    /\ bstr = NULLSTR
    /\ amt2 = AMT_UNSET
    /\ noncanonical2 = NC_UNSET
    /\ aerr = ERR_UNSET

InitAmountStart ==
    /\ bstr = NULLSTR
    /\ amt2 = AMT_UNSET
    /\ noncanonical2 = NC_UNSET
    /\ aerr = ERR_UNSET
    /\ \/ /\ apc = "rt_start"
          /\ amount \in AmountSamples
          /\ str = NULLSTR
       \/ /\ apc = "cs_start"
          /\ amount = AMT_UNSET
          /\ str \in StringSamples

\* bstr = wc_to_bstring(amount)
RoundTripFormat ==
    /\ apc = "rt_start"
    /\ bstr' = wc_to_bstring(amount)
    /\ apc' = "rt_formatted"
    /\ UNCHANGED <<amount, str, amt2, noncanonical2, aerr, notAmountVars>>

\* wc_from_bstring(&amt2, &noncanonical2, bstr)
RoundTripParse ==
    /\ apc = "rt_formatted"
    /\ LET r == wc_from_bstring(amt2, noncanonical2, bstr)
       IN  /\ aerr' = r.err
           /\ amt2' = r.amt
           /\ noncanonical2' = r.noncanonical
    /\ apc' = "rt_parsed"
    /\ UNCHANGED <<amount, str, bstr, notAmountVars>>

\* wc_from_cstring(&amt2, &noncanonical2, str)
TestCstringParse ==
    /\ apc = "cs_start"
    /\ LET r == wc_from_cstring(amt2, noncanonical2, str)
       IN  /\ aerr' = r.err
           /\ amt2' = r.amt
           /\ noncanonical2' = r.noncanonical
    /\ apc' = "cs_parsed"
    /\ UNCHANGED <<amount, str, bstr, notAmountVars>>

\* if (err == WC_SUCCESS) bstr = wc_to_bstring(amt2)
TestCstringFormat ==
    /\ apc = "cs_parsed"
    /\ aerr = WC_SUCCESS
    /\ bstr' = wc_to_bstring(amt2)
    /\ apc' = "cs_formatted"
    /\ UNCHANGED <<amount, str, amt2, noncanonical2, aerr, notAmountVars>>

NextAmount ==
    \/ RoundTripFormat
    \/ RoundTripParse
    \/ TestCstringParse
    \/ TestCstringFormat

(***************************************************************************)
(* Claim codes: wc_secret_t, wc_public_t and their string forms            *)
(***************************************************************************)
HASH_BYTES == 32        \* sizeof(struct sha256)
HASH_HEX_LEN == 64      \* "64/*hash*/"
BSTR_ERR == -1

\* "0123456789abcdef"
hexdigits == <<48, 49, 50, 51, 52, 53, 54, 55, 56, 57, 97, 98, 99, 100, 101, 102>>

\* mutant: no branch for 'A'..'F'
hexdigit_to_int_NoUpper(c) ==
    IF c >= CH_0 /\ c <= CH_9 THEN c - CH_0
    ELSE IF c >= CH_a /\ c <= CH_f THEN c - CH_a + 10
    ELSE 255

hexdigit_to_int(c) ==
    IF c >= CH_0 /\ c <= CH_9 THEN c - CH_0
    ELSE IF c >= CH_a /\ c <= CH_f THEN c - CH_a + 10
    ELSE IF c >= CH_A /\ c <= CH_F THEN c - CH_A + 10
    ELSE 255

\* "secret" and "public"
SECRET_TAG == <<115, 101, 99, 114, 101, 116>>
PUBLIC_TAG == <<112, 117, 98, 108, 105, 99>>

\* binchr(b, pos, ":") of bstrlib: the first position >= pos (counted from 0)
\* holding the character, BSTR_ERR when there is none
binchr(b, pos, c) ==
    LET hits == {p \in pos..(Len(b) - 1) : b[p + 1] = c}
    IN  IF pos < 0 \/ Len(b) <= pos \/ hits = {} THEN BSTR_ERR
        ELSE CHOOSE p \in hits : \A q \in hits : p <= q

\* btfromblk(t, &b->data[left], len) and bmidstr(b, left, len)
Mid(b, left, len) == SubSeq(b, left + 1, left + len)

\* "amount < (wc_amount_t)1"
AmountBelowOne(a) == a.neg \/ a.mag = <<0>>

WC_ZERO == AmountOf(0)

wc_secret_is_valid(s) ==
    IF AmountBelowOne(s.amount) THEN WC_ERROR_INVALID_ARGUMENT
    ELSE IF s.serial = NULLSTR THEN WC_ERROR_INVALID_ARGUMENT
    ELSE IF \E i \in 1..Len(s.serial) : s.serial[i] = 0 THEN WC_ERROR_INVALID_ARGUMENT
    ELSE WC_SUCCESS

wc_public_is_valid(p) ==
    IF AmountBelowOne(p.amount) THEN WC_ERROR_INVALID_ARGUMENT ELSE WC_SUCCESS

\* the "e" the format strings start with
ClaimPrefix == <<CH_e>>

\* bformat("e%s:secret:%s", amt->data, secret->serial->data)
wc_secret_to_string(bstr0, s) ==
    IF s.serial = NULLSTR THEN [err |-> WC_ERROR_INVALID_ARGUMENT, bstr |-> bstr0]
    ELSE [err |-> WC_SUCCESS,
          bstr |-> ClaimPrefix \o CStr(wc_to_bstring(s.amount)) \o <<CH_COLON>>
                   \o SECRET_TAG \o <<CH_COLON>> \o CStr(s.serial)]

\* mutant: the serial field ends at the next ':'
SerialField_ToColon(b, pos2) ==
    LET nxt == binchr(b, pos2 + 1, CH_COLON)
    IN  Mid(b, pos2 + 1, (IF nxt = BSTR_ERR THEN Len(b) ELSE nxt) - pos2 - 1)

\* bmidstr(bstr, pos[2] + 1, bstr->slen - pos[2] - 1)
SerialField(b, pos2) == Mid(b, pos2 + 1, Len(b) - pos2 - 1)

\* mutant: the missing 'e' goes unnoticed
SigilFlag_AmountOnly(is_noncanonical, pos0) == IF is_noncanonical # 0 THEN 1 ELSE 0

\* "is_noncanonical = is_noncanonical || pos[0] == 0"
SigilFlag(is_noncanonical, pos0) == IF is_noncanonical # 0 \/ pos0 = 0 THEN 1 ELSE 0

wc_secret_parse(secret0, nc0, b) ==
    LET fail(e) == [err |-> e, secret |-> secret0, noncanonical |-> nc0]
    IN
    IF b = NULLSTR THEN fail(WC_ERROR_INVALID_ARGUMENT)
    ELSE IF Len(b) <= 0 THEN fail(WC_ERROR_INVALID_ARGUMENT)
    ELSE
    LET pos0 == IF b[1] = CH_e THEN 1 ELSE 0
        pos1 == binchr(b, pos0, CH_COLON)
        pos2 == binchr(b, pos1 + 1, CH_COLON)
    IN
    IF pos1 = BSTR_ERR THEN fail(WC_ERROR_INVALID_ARGUMENT)
    ELSE IF pos2 = BSTR_ERR THEN fail(WC_ERROR_INVALID_ARGUMENT)
    ELSE IF Mid(b, pos1 + 1, pos2 - pos1 - 1) # SECRET_TAG
         THEN fail(WC_ERROR_INVALID_ARGUMENT)
    ELSE
    Bind(wc_from_bstring(WC_ZERO, 0, Mid(b, pos0, pos1 - pos0)), LAMBDA r:
    IF r.err # WC_SUCCESS THEN fail(r.err)
    ELSE [err |-> WC_SUCCESS,
          secret |-> [amount |-> r.amt, serial |-> SerialField(b, pos2)],
          noncanonical |-> SigilFlag(r.noncanonical, pos0)])

\* mutant: "%02X"
HexByte_Upper(byte) ==
    LET up(c) == IF c >= CH_a THEN c - CH_a + CH_A ELSE c
    IN  <<up(hexdigits[(byte \div 16) + 1]), up(hexdigits[(byte % 16) + 1])>>

\* "%02x" of one byte
HexByte(byte) == <<hexdigits[(byte \div 16) + 1], hexdigits[(byte % 16) + 1]>>

\* the 32 "%02x" conversions of hash.u8[0..31]
HexHash(h) == [i \in 1..(2 * Len(h)) |-> HexByte(h[(i + 1) \div 2])[2 - (i % 2)]]

wc_public_to_string(bstr0, p) ==
    [err |-> WC_SUCCESS,
     bstr |-> ClaimPrefix \o CStr(wc_to_bstring(p.amount)) \o <<CH_COLON>>
              \o PUBLIC_TAG \o <<CH_COLON>> \o HexHash(p.hash)]

\* ret.hash.u8[j] = hexdigit_to_int(...) << 4 | hexdigit_to_int(...)
HashField(b, pos2) ==
    [j \in 1..HASH_BYTES |->
        (hexdigit_to_int(b[pos2 + 2 * j]) * 16 + hexdigit_to_int(b[pos2 + 2 * j + 1])) % 256]

wc_public_parse(pub0, nc0, b) ==
    LET fail(e) == [err |-> e, pub |-> pub0, noncanonical |-> nc0]
    IN
    IF b = NULLSTR THEN fail(WC_ERROR_INVALID_ARGUMENT)
    ELSE IF Len(b) <= 0 THEN fail(WC_ERROR_INVALID_ARGUMENT)
    ELSE
    LET pos0 == IF b[1] = CH_e THEN 1 ELSE 0
    IN
    Bind(binchr(b, pos0, CH_COLON), LAMBDA pos1:
    IF pos1 = BSTR_ERR THEN fail(WC_ERROR_INVALID_ARGUMENT)
    ELSE
    Bind(binchr(b, pos1 + 1, CH_COLON), LAMBDA pos2:
    IF pos2 = BSTR_ERR THEN fail(WC_ERROR_INVALID_ARGUMENT)
    ELSE IF Len(b) - pos2 # 1 + HASH_HEX_LEN THEN fail(WC_ERROR_INVALID_ARGUMENT)
    \* payload character j (from 1) is b[pos2 + 1 + j]
    ELSE IF \E j \in 1..HASH_HEX_LEN : hexdigit_to_int(b[pos2 + 1 + j]) > 15
         THEN fail(WC_ERROR_INVALID_ARGUMENT)
    ELSE IF Mid(b, pos1 + 1, pos2 - pos1 - 1) # PUBLIC_TAG
         THEN fail(WC_ERROR_INVALID_ARGUMENT)
    ELSE
    LET upper == IF \E j \in 1..HASH_HEX_LEN : b[pos2 + 1 + j] >= CH_A /\ b[pos2 + 1 + j] <= CH_F
                 THEN 1 ELSE 0
    IN
    Bind(wc_from_bstring(WC_ZERO, 0, Mid(b, pos0, pos1 - pos0)), LAMBDA r:
    IF r.err # WC_SUCCESS THEN fail(r.err)
    ELSE [err |-> WC_SUCCESS,
          pub |-> [amount |-> r.amt, hash |-> HashField(b, pos2)],
          noncanonical |-> IF upper # 0 \/ r.noncanonical # 0 \/ pos0 = 0 THEN 1 ELSE 0])))

(***************************************************************************)
(* Inputs of the claim code scenarios                                      *)
(***************************************************************************)
MaxSerialLen == 3
MaxHashPos == 3

SerialAlphabet == {CH_COLON, CH_a, CH_e, 0}
HashByteSamples == {0, 10, 16, 171, 255}

ClaimAmountSamples ==
    {WC_ZERO, AmountOf(1), [neg |-> TRUE, mag |-> <<1>>],
     [neg |-> FALSE, mag |-> <<1,0,0,0,0,0,0,0,0>>],
     [neg |-> FALSE, mag |-> <<1,2,3,4,5,6,7,8,0,0>>],
     [neg |-> FALSE, mag |-> INT64_MAX], INT64_MIN}

SecretSamples ==
    {[amount |-> a, serial |-> s] :
        a \in ClaimAmountSamples,
        s \in SeqsUpTo(SerialAlphabet, MaxSerialLen) \cup {NULLSTR, <<CH_a, CH_a + 1, CH_a + 2>>}}

\* sha256(b"abc").digest()
HASH_ABC ==
    <<186, 120, 22, 191, 143, 1, 207, 234, 65, 65, 64, 222, 93, 174, 34, 35,
      176, 3, 97, 163, 150, 23, 122, 156, 180, 16, 255, 97, 242, 0, 21, 173>>

\* hashes with one byte set apart, among the first MaxHashPos bytes or last
HashSamples ==
    {[i \in 1..HASH_BYTES |-> IF i = k THEN x ELSE y] :
        k \in (1..MaxHashPos) \cup {HASH_BYTES}, x \in HashByteSamples, y \in HashByteSamples}
    \cup {HASH_ABC}

PublicSamples ==
    {[amount |-> a, hash |-> h] :
        a \in {WC_ZERO, AmountOf(1), [neg |-> FALSE, mag |-> <<1,2,3,4,5,6,7,8,0,0>>]},
        h \in HashSamples}

\* the claim codes handed to wc_secret_parse directly: with and without the
\* 'e', amount fields that parse, parse as noncanonical or do not parse,
\* middle fields, serials, and texts with fewer than two ':'
AmountFieldSamples ==
    {Dec(<<1>>), Dec(<<0>>), Dec(<<0, 1>>), Dec(<<1>>) \o <<CH_DOT>> \o Dec(<<0>>), <<>>,
     <<CH_MINUS>> \o Dec(<<1>>), <<CH_a>>, <<CH_e>> \o Dec(<<1>>),
     Dec(<<1,8,4,4,6,7,4,4,0,7,3,8>>), Dec(<<0>>) \o <<CH_DOT>> \o Dec(<<0,0,0,0,0,0,0,1>>)}

TagSamples ==
    {SECRET_TAG, PUBLIC_TAG, <<>>, SubSeq(SECRET_TAG, 1, Len(SECRET_TAG) - 1),
     SECRET_TAG \o <<CH_a>>}

SerialFieldSamples ==
    {<<>>, <<CH_a>>, <<CH_COLON>>, <<CH_a, CH_COLON, CH_e>>, <<CH_a, 0, CH_a>>}

ClaimTextSamples ==
    {e \o a \o <<CH_COLON>> \o t \o <<CH_COLON>> \o x :
        e \in {<<>>, <<CH_e>>}, a \in AmountFieldSamples, t \in TagSamples,
        x \in SerialFieldSamples}
    \cup {<<>>, <<CH_e>>, <<CH_COLON>>, <<CH_e>> \o Dec(<<1>>),
          <<CH_e>> \o Dec(<<1>>) \o <<CH_COLON>> \o SECRET_TAG,
          Dec(<<1>>) \o <<CH_COLON>> \o SECRET_TAG}

\* what the target of a direct parse holds before the call
SECRET_PRESET == [amount |-> AmountOf(7), serial |-> <<CH_a>>]

\* the 64 hex characters of sha256(b"abc"), and the same in capitals
HEX_ABC == <<>> \o HexHash(HASH_ABC)
HEX_ABC_UPPER ==
    <<>> \o [i \in 1..Len(HEX_ABC) |->
                IF HEX_ABC[i] >= CH_a /\ HEX_ABC[i] <= CH_f
                THEN HEX_ABC[i] - CH_a + CH_A ELSE HEX_ABC[i]]

\* the characters around the three ranges of hexdigit_to_int, a NUL and a
\* byte above 127
PayloadCharSamples == {CH_A, CH_F, CH_F + 1, CH_A - 1, CH_0 - 1, CH_COLON, CH_a - 1, CH_f + 1, 0, 200}

\* payloads after the second ':': the lowercase and the uppercase form, one
\* character replaced at the first, second or last place, and other lengths
PayloadSamples ==
    {HEX_ABC, HEX_ABC_UPPER, <<>>, SubSeq(HEX_ABC, 1, HASH_HEX_LEN - 1),
     HEX_ABC \o <<CH_0>>, HEX_ABC \o HEX_ABC}
    \cup {SubSeq(HEX_ABC, 1, k - 1) \o <<c>> \o SubSeq(HEX_ABC, k + 1, HASH_HEX_LEN) :
            k \in {1, 2, HASH_HEX_LEN}, c \in PayloadCharSamples}

\* the claim codes handed to wc_public_parse directly
PublicTextSamples ==
    {e \o a \o <<CH_COLON>> \o t \o <<CH_COLON>> \o x :
        e \in {<<>>, <<CH_e>>},
        a \in {Dec(<<1>>), Dec(<<0, 1>>), <<CH_a>>,
               Dec(<<1, 2>>) \o <<CH_DOT>> \o Dec(<<3, 4, 5, 6, 7, 8>>)},
        t \in {PUBLIC_TAG, SECRET_TAG, SubSeq(PUBLIC_TAG, 1, Len(PUBLIC_TAG) - 1)},
        x \in PayloadSamples}
    \cup {<<>>, <<CH_e>>, <<CH_e>> \o Dec(<<1>>) \o <<CH_COLON>> \o PUBLIC_TAG,
          <<CH_e>> \o Dec(<<1>>) \o <<CH_COLON>> \o HEX_ABC}

\* what the target of a direct wc_public_parse holds before the call
PUBLIC_PRESET == [amount |-> AmountOf(7), hash |-> HASH_ABC]

\* a destroyed secret, and WC_PUBLIC_INIT
SECRET_NONE == [amount |-> WC_ZERO, serial |-> NULLSTR]
WC_PUBLIC_INIT == [amount |-> WC_ZERO, hash |-> [i \in 1..HASH_BYTES |-> 0]]

(***************************************************************************)
(* Claim code scenarios (wc_secret_string, wc_public_string):              *)
(*   secret --wc_secret_to_string--> cbstr --wc_secret_parse--> secret2    *)
(*   pub    --wc_public_to_string--> cbstr --wc_public_parse--> pub2       *)
(***************************************************************************)
InitClaimIdle ==
    /\ cpc = "idle"
    /\ secret = SECRET_NONE
    /\ pub = WC_PUBLIC_INIT
    /\ cbstr = NULLSTR
    /\ secret2 = SECRET_NONE
    /\ pub2 = WC_PUBLIC_INIT
    /\ cnoncanonical = NC_UNSET
    /\ cerr = ERR_UNSET

InitClaimStart ==
    /\ cnoncanonical = NC_UNSET
    /\ cerr = ERR_UNSET
    /\ \/ /\ cpc = "sec_start"
          /\ secret \in SecretSamples
          /\ pub = WC_PUBLIC_INIT
          /\ cbstr = NULLSTR
          /\ secret2 = SECRET_NONE
          /\ pub2 = WC_PUBLIC_INIT
       \/ /\ cpc = "pub_start"
          /\ secret = SECRET_NONE
          /\ pub \in PublicSamples
          /\ cbstr = NULLSTR
          /\ secret2 = SECRET_NONE
          /\ pub2 = WC_PUBLIC_INIT
       \/ /\ cpc = "text_start"
          /\ secret = SECRET_NONE
          /\ pub = WC_PUBLIC_INIT
          /\ cbstr \in ClaimTextSamples
          /\ secret2 = SECRET_PRESET
          /\ pub2 = WC_PUBLIC_INIT
       \/ /\ cpc = "ptext_start"
          /\ secret = SECRET_NONE
          /\ pub = WC_PUBLIC_INIT
          /\ cbstr \in PublicTextSamples
          /\ secret2 = SECRET_NONE
          /\ pub2 = PUBLIC_PRESET

\* wc_secret_to_string(&cbstr, &secret)
SecretToString ==
    /\ cpc = "sec_start"
    /\ LET r == wc_secret_to_string(cbstr, secret)
       IN  /\ cerr' = r.err
           /\ cbstr' = r.bstr
    /\ cpc' = "sec_string"
    /\ UNCHANGED <<secret, pub, secret2, pub2, cnoncanonical, notClaimVars>>

\* wc_secret_parse(&secret2, &cnoncanonical, cbstr)
SecretParse ==
    /\ cpc = "sec_string"
    /\ cerr = WC_SUCCESS
    /\ LET r == wc_secret_parse(secret2, cnoncanonical, cbstr)
       IN  /\ cerr' = r.err
           /\ secret2' = r.secret
           /\ cnoncanonical' = r.noncanonical
    /\ cpc' = "sec_parsed"
    /\ UNCHANGED <<secret, pub, cbstr, pub2, notClaimVars>>

\* wc_public_to_string(&cbstr, &pub)
PublicToString ==
    /\ cpc = "pub_start"
    /\ LET r == wc_public_to_string(cbstr, pub)
       IN  /\ cerr' = r.err
           /\ cbstr' = r.bstr
    /\ cpc' = "pub_string"
    /\ UNCHANGED <<secret, pub, secret2, pub2, cnoncanonical, notClaimVars>>

\* wc_public_parse(&pub2, &cnoncanonical, cbstr)
PublicParse ==
    /\ cpc = "pub_string"
    /\ cerr = WC_SUCCESS
    /\ LET r == wc_public_parse(pub2, cnoncanonical, cbstr)
       IN  /\ cerr' = r.err
           /\ pub2' = r.pub
           /\ cnoncanonical' = r.noncanonical
    /\ cpc' = "pub_parsed"
    /\ UNCHANGED <<secret, pub, cbstr, secret2, notClaimVars>>

\* wc_secret_is_valid(&secret)
SecretIsValid ==
    /\ cpc = "sec_start"
    /\ cerr' = wc_secret_is_valid(secret)
    /\ cpc' = "sec_checked"
    /\ UNCHANGED <<secret, pub, cbstr, secret2, pub2, cnoncanonical, notClaimVars>>

\* wc_public_is_valid(&pub)
PublicIsValid ==
    /\ cpc = "pub_start"
    /\ cerr' = wc_public_is_valid(pub)
    /\ cpc' = "pub_checked"
    /\ UNCHANGED <<secret, pub, cbstr, secret2, pub2, cnoncanonical, notClaimVars>>

\* wc_secret_parse(&secret2, &cnoncanonical, cbstr) on a text of the caller
SecretParseText ==
    /\ cpc = "text_start"
    /\ LET r == wc_secret_parse(secret2, cnoncanonical, cbstr)
       IN  /\ cerr' = r.err
           /\ secret2' = r.secret
           /\ cnoncanonical' = r.noncanonical
    /\ cpc' = "text_parsed"
    /\ UNCHANGED <<secret, pub, cbstr, pub2, notClaimVars>>

\* wc_public_parse(&pub2, &cnoncanonical, cbstr) on a text of the caller
PublicParseText ==
    /\ cpc = "ptext_start"
    /\ LET r == wc_public_parse(pub2, cnoncanonical, cbstr)
       IN  /\ cerr' = r.err
           /\ pub2' = r.pub
           /\ cnoncanonical' = r.noncanonical
    /\ cpc' = "ptext_parsed"
    /\ UNCHANGED <<secret, pub, cbstr, secret2, notClaimVars>>

NextClaim ==
    \/ SecretToString
    \/ SecretParse
    \/ PublicToString
    \/ PublicParse
    \/ SecretIsValid
    \/ PublicIsValid
    \/ SecretParseText
    \/ PublicParseText

(***************************************************************************)
(* Serial derivation: wc_derive_serial, wc_derive_serials                  *)
(*                                                                         *)
(* chaincode and depth are uint64_t; here a uint64_t is its four 16-bit    *)
(* limbs, least significant first.  blocks[8*64] is kept as 8 blocks of 64 *)
(* bytes.  A buffer position nobody wrote holds UNWRITTEN.                 *)
(***************************************************************************)
LIMB == 65536
LANES == 8              \* blocks hashed by one sha256_midstate call
BLOCK_LEN == 64
SERIAL_LEN == 64        \* 2 * sizeof(struct sha256)
MIDSTATE_BYTES == 64    \* webcashwalletv1_midstate.bytes once wc_init has run
CLEANSE_LEN == 48
UNWRITTEN == -1

U64Of(k) == <<k % LIMB, k \div LIMB, 0, 0>>

\* x + k in uint64_t arithmetic, for a small k
U64Plus(x, k) ==
    LET t0 == x[1] + k
        t1 == x[2] + (t0 \div LIMB)
        t2 == x[3] + (t1 \div LIMB)
        t3 == x[4] + (t2 \div LIMB)
    IN  <<t0 % LIMB, t1 % LIMB, t2 % LIMB, t3 % LIMB>>

\* the eight bytes WriteBE64 stores
BE64(x) ==
    <<x[4] \div 256, x[4] % 256, x[3] \div 256, x[3] % 256,
      x[2] \div 256, x[2] % 256, x[1] \div 256, x[1] % 256>>

\* memcpy(b + off, bytes, Len(bytes))
WriteAt(b, off, bytes) ==
    SubSeq(b, 1, off) \o bytes \o SubSeq(b, off + Len(bytes) + 1, Len(b))

\* the body of the block filling loop, for block n
FillBlock(blk, root, chaincode) ==
    WriteAt(WriteAt(WriteAt(WriteAt(blk, 0, root), 32, BE64(chaincode)), 48, <<128>>),
            56, BE64(U64Of((MIDSTATE_BYTES + 48) * 8)))

\* mutant: every lane given the depth of lane 0
LaneDepth_Same(depth, lane) == depth

\* "depth + lane"
LaneDepth(depth, lane) == U64Plus(depth, lane)

\* the WriteBE64(blocks + 64*lane + 40, depth + lane) statements executed
\* on one pass: lanes entered - 1 down to 0
WriteDepths(blocks, depth, entered) ==
    SubSeq([l \in 1..LANES |->
                IF l <= entered THEN WriteAt(blocks[l], 40, BE64(LaneDepth(depth, l - 1)))
                ELSE blocks[l]], 1, LANES)

RECURSIVE SumBytes(_, _, _, _)
SumBytes(blk, lo, hi, weight) ==
    IF lo = hi THEN (blk[lo] * (1 + weight * lo)) % 256
    ELSE (SumBytes(blk, lo, (lo + hi) \div 2, weight)
          + SumBytes(blk, ((lo + hi) \div 2) + 1, hi, weight)) % 256

\* stand-in for the SHA-256 compression of one block from the tagged
\* midstate (libsha2): 32 bytes that depend on every byte of the block
\* and on its position
BlockDigest(blk) ==
    Bind(<<SumBytes(blk, 1, BLOCK_LEN, 0), SumBytes(blk, 1, BLOCK_LEN, 1)>>, LAMBDA sums:
        SubSeq([j \in 1..HASH_BYTES |-> (sums[1] * j + sums[2] + blk[j] + 3 * blk[j + 32]) % 256],
               1, HASH_BYTES))

\* sha256_midstate((struct sha256*)out, midstate.s, blocks, m)
sha256_midstate(out, pos, blocks, m) ==
    Bind([l \in 1..m |-> BlockDigest(blocks[l])], LAMBDA digest:
        WriteAt(out, pos, [i \in 1..(m * HASH_BYTES) |->
                              digest[((i - 1) \div HASH_BYTES) + 1][((i - 1) % HASH_BYTES) + 1]]))

\* out[2*i + 1] = hexdigits[(out[i] >> 0) & 0x0f];
\* out[2*i + 0] = hexdigits[(out[i] >> 4) & 0x0f];
HexStep(out, pos, i) ==
    [out EXCEPT ![pos + 2 * i + 2] = hexdigits[(out[pos + i + 1] % 16) + 1],
                ![pos + 2 * i + 1] = hexdigits[((out[pos + i + 1] \div 16) % 16) + 1]]

\* for (i = hi; i >= lo; --i) HexStep; the iterations run in that order,
\* the upper half of the range before the lower half
RECURSIVE HexExpand(_, _, _, _)
HexExpand(out, pos, hi, lo) ==
    IF hi < lo THEN out
    ELSE IF hi = lo THEN HexStep(out, pos, hi)
    ELSE Bind(HexExpand(out, pos, hi, ((hi + lo) \div 2) + 1), LAMBDA o:
              HexExpand(o, pos, (hi + lo) \div 2, lo))

\* the case label "switch (count % 8)" jumps to, as the number of
\* WriteBE64 statements executed before the hashing
DuffEntry(count) == IF count % LANES = 0 THEN LANES ELSE count % LANES

\* one pass through the body of the do-while loop; st.entered is the
\* number of depth writes this pass executes
DuffPass(st) ==
    LET m == ((st.count - 1) % LANES) + 1
    IN  Bind(WriteDepths(st.blocks, st.depth, st.entered), LAMBDA blocks:
        Bind(sha256_midstate(st.out, st.pos, blocks, m), LAMBDA hashed:
        Bind(HexExpand(hashed, st.pos, m * HASH_BYTES - 1, 0), LAMBDA out:
                [blocks |-> blocks,
                 out |-> out,
                 pos |-> st.pos + m * SERIAL_LEN,
                 depth |-> U64Plus(st.depth, m),
                 count |-> st.count - m,
                 entered |-> LANES,
                 batches |-> Append(st.batches,
                                [m |-> m, lanes |-> [l \in 1..m |-> Mid(blocks[l], 40, 8)]])])))

\* do { ... } while (count > 0)
RECURSIVE DuffLoop(_)
DuffLoop(st) == Bind(DuffPass(st), LAMBDA after: IF after.count > 0 THEN DuffLoop(after) ELSE after)

ZeroBytes(k) == [i \in 1..k |-> 0]

\* mutant: the memset is optimised away
wc_memory_cleanse_Elided(b, len) == b

\* wc_memory_cleanse(ptr, len): memset(ptr, 0, len) behind a barrier
wc_memory_cleanse(b, len) == WriteAt(b, 0, ZeroBytes(len))

\* The whole call.  The result carries the caller's buffer, and blocks[]
\* and the history of the hashing calls as the call left them.
wc_derive_serials(out, root, chaincode, depth, count) ==
    LET blocks0 == [l \in 1..LANES |-> ZeroBytes(BLOCK_LEN)]
        n == Min(count, LANES)
    IN
    IF count = 0 THEN [out |-> out, blocks |-> blocks0, batches |-> <<>>]
    ELSE
    Bind(DuffLoop([blocks |-> SubSeq([l \in 1..LANES |->
                                  IF l <= n THEN FillBlock(blocks0[l], root, chaincode)
                                  ELSE blocks0[l]], 1, LANES),
                   out |-> out, pos |-> 0, depth |-> depth, count |-> count,
                   entered |-> DuffEntry(count), batches |-> <<>>]),
         LAMBDA done:
            [out |-> done.out,
             \* while (n) wc_memory_cleanse(blocks + 64*(--n), 48)
             blocks |-> [l \in 1..LANES |->
                            IF l <= n THEN wc_memory_cleanse(done.blocks[l], CLEANSE_LEN)
                            ELSE done.blocks[l]],
             batches |-> done.batches])

\* The result carries *bstr and buf[] as the call left them; oom: blk2bstr
\* cannot allocate.
wc_derive_serial(bstr0, root, chaincode, depth, oom) ==
    Bind(wc_derive_serials(ZeroBytes(SERIAL_LEN), root, chaincode, depth, 1), LAMBDA r:
        [err |-> IF oom THEN WC_ERROR_OUT_OF_MEMORY ELSE WC_SUCCESS,
         bstr |-> IF oom THEN NULLSTR ELSE SubSeq(r.out, 1, SERIAL_LEN),
         buf |-> wc_memory_cleanse(r.out, SERIAL_LEN)])

(***************************************************************************)
(* Inputs of the derivation scenario                                       *)
(***************************************************************************)
MaxCount == 17

\* hdroot of the test
HDROOT ==
    <<64, 124, 149, 11, 61, 230, 0, 100, 215, 255, 116, 75, 155, 71, 67, 184,
      222, 88, 233, 67, 231, 197, 55, 223, 61, 58, 138, 41, 163, 46, 29, 15>>

ChaincodeSamples == {U64Of(0), U64Of(1), <<1800, 1286, 772, 258>>}

\* start depths: 0, one whose low byte carries, one whose low limb
\* carries, and one that wraps around 2^64 within MaxCount steps
DepthSamples ==
    {U64Of(0), U64Of(250), U64Of(LIMB - 3), <<LIMB - 5, LIMB - 1, LIMB - 1, LIMB - 1>>}

DeriveArgSamples ==
    {[root |-> r, chaincode |-> c, depth |-> d, count |-> k] :
        r \in {HDROOT, ZeroBytes(HASH_BYTES)}, c \in ChaincodeSamples,
        d \in DepthSamples, k \in 0..MaxCount}

\* room for MaxCount serials and one more
BUF1_INIT == [i \in 1..((MaxCount + 1) * SERIAL_LEN) |-> UNWRITTEN]

(***************************************************************************)
(* Derivation scenario (test wc_derive_serials): one call of               *)
(* wc_derive_serials, then wc_derive_serial for depth + n, n = 0..count-1  *)
(***************************************************************************)
InitDeriveIdle ==
    /\ dpc = "idle"
    /\ dargs = [root |-> ZeroBytes(HASH_BYTES), chaincode |-> U64Of(0),
                depth |-> U64Of(0), count |-> 0]
    /\ buf1 = <<>>
    /\ dblocks = <<>>
    /\ dbatches = <<>>
    /\ dn = 0
    /\ dsingle = <<>>
    /\ dbuf = <<>>
    /\ dserr = ERR_UNSET

InitDeriveStart ==
    /\ dpc = "start"
    /\ dargs \in DeriveArgSamples
    /\ buf1 = BUF1_INIT
    /\ dblocks = <<>>
    /\ dbatches = <<>>
    /\ dn = 0
    /\ dsingle = <<>>
    /\ dbuf = <<>>
    /\ dserr = ERR_UNSET

\* wc_derive_serials(buf1, &hdroot, chaincode, depth, count)
DeriveSerials ==
    /\ dpc = "start"
    /\ LET r == wc_derive_serials(buf1, dargs.root, dargs.chaincode, dargs.depth, dargs.count)
       IN  /\ buf1' = r.out
           /\ dblocks' = r.blocks
           /\ dbatches' = r.batches
    /\ dpc' = "loop"
    /\ UNCHANGED <<dargs, dn, dsingle, dbuf, dserr, notDeriveVars>>

\* wc_derive_serial(&bstr, &hdroot, chaincode, depth + n); ++n.  When the
\* call runs out of memory the step is made again.
DeriveSerial ==
    /\ dpc = "loop"
    /\ dn < dargs.count
    /\ \E oom \in BOOLEAN :
        LET r == wc_derive_serial(NULLSTR, dargs.root, dargs.chaincode, U64Plus(dargs.depth, dn), oom)
        IN  /\ dbuf' = r.buf
            /\ dserr' = r.err
            /\ dsingle' = IF r.err = WC_SUCCESS THEN dsingle \o r.bstr ELSE dsingle
            /\ dn' = IF r.err = WC_SUCCESS THEN dn + 1 ELSE dn
    /\ UNCHANGED <<dpc, dargs, buf1, dblocks, dbatches, notDeriveVars>>

NextDerive ==
    \/ DeriveSerials
    \/ DeriveSerial

(***************************************************************************)
(* Storage, server and user interface facades, and the wallet              *)
(*                                                                         *)
(*  - A handle of the host (log, database, connection, window) is a        *)
(*    positive number, 0 is the null handle.  A facade object is a record  *)
(*    whose ptr field is 0 for a null pointer; cb is the set of names of   *)
(*    the callbacks its callback table provides.                           *)
(*  - A terms of service text is a string; NULL_BSTR is the null bstring.  *)
(*  - A struct tm is a record [set, utc]: utc is the POSIX time of the     *)
(*    broken-down time read as UTC; TM_ZERO is the zero-filled struct.     *)
(*  - What the host's callbacks answer during a call is an argument of     *)
(*    the operator that models the call.  The database of the host keeps   *)
(*    what accept_terms stored and answers terms_accepted from it.         *)
(*  - Allocation (malloc, bstrcpy) is taken to succeed.                    *)
(***************************************************************************)
NULL_BSTR == "NULL"
WC_TIME_EPOCH == 1641067200
TIME_T_FAR == 2147483647    \* a time_t whose year does not fit struct tm
NOWRITE == -1               \* the callback left its output argument alone
TM_ZERO == [set |-> FALSE, utc |-> 0]
NULL_TM == [set |-> FALSE, utc |-> -1]   \* a null struct tm pointer

NULL_STORAGE == [ptr |-> 0, cb |-> {}, db |-> 0, log |-> 0]
NULL_SERVER == [ptr |-> 0, cb |-> {}, conn |-> 0]
NULL_UI == [ptr |-> 0, cb |-> {}, hwnd |-> 0]
NULL_WALLET ==
    [ptr |-> 0, storage |-> NULL_STORAGE, server |-> NULL_SERVER, ui |-> NULL_UI,
     terms |-> NULL_BSTR, accepted |-> 0, terms_tm |-> TM_ZERO]

\* a call of the host made by the library, or a facade function entered
Event(name, h) == [ev |-> name, h |-> h]

gmtime_r(t) == IF t >= TIME_T_FAR THEN [ok |-> FALSE, tm |-> TM_ZERO]
               ELSE [ok |-> TRUE, tm |-> [set |-> TRUE, utc |-> t]]

\* the fields of tm read as local time, tz seconds east of UTC
mktime(tm, tz) == tm.utc - tz

\* a null callback table pointer
NULL_CALLBACKS == {"NULL"}

\* mutant: the object is handed out although db_open returned null
wc_storage_open_NoDbCheck(hasout, storage, callbacks, lo, do) ==
    IF ~hasout \/ callbacks = NULL_CALLBACKS \/ ~({"db_open", "log_open"} \subseteq callbacks)
    THEN [ret |-> WC_ERROR_INVALID_ARGUMENT, storage |-> storage, events |-> <<>>]
    ELSE IF lo = 0
    THEN [ret |-> WC_ERROR_LOG_OPEN_FAILED, storage |-> storage,
          events |-> <<Event("log_open", lo)>>]
    ELSE [ret |-> WC_SUCCESS,
          storage |-> [ptr |-> 1, cb |-> callbacks, db |-> do, log |-> lo],
          events |-> <<Event("log_open", lo), Event("db_open", do)>>]

\* mutant: the log stays open when the database cannot be opened
wc_storage_open_LeakLog(hasout, storage, callbacks, lo, do) ==
    IF ~hasout \/ callbacks = NULL_CALLBACKS \/ ~({"db_open", "log_open"} \subseteq callbacks)
    THEN [ret |-> WC_ERROR_INVALID_ARGUMENT, storage |-> storage, events |-> <<>>]
    ELSE IF lo = 0
    THEN [ret |-> WC_ERROR_LOG_OPEN_FAILED, storage |-> storage,
          events |-> <<Event("log_open", lo)>>]
    ELSE IF do = 0
    THEN [ret |-> WC_ERROR_DB_OPEN_FAILED, storage |-> storage,
          events |-> <<Event("log_open", lo), Event("db_open", do)>>]
    ELSE [ret |-> WC_SUCCESS,
          storage |-> [ptr |-> 1, cb |-> callbacks, db |-> do, log |-> lo],
          events |-> <<Event("log_open", lo), Event("db_open", do)>>]

\* hasout: the output pointer is not null; storage: what the caller's
\* variable holds; lo, do: the handles log_open and db_open return
wc_storage_open(hasout, storage, callbacks, lo, do) ==
    IF ~hasout \/ callbacks = NULL_CALLBACKS \/ ~({"db_open", "log_open"} \subseteq callbacks)
    THEN [ret |-> WC_ERROR_INVALID_ARGUMENT, storage |-> storage, events |-> <<>>]
    ELSE IF lo = 0
    THEN [ret |-> WC_ERROR_LOG_OPEN_FAILED, storage |-> storage,
          events |-> <<Event("log_open", lo)>>]
    ELSE IF do = 0
    THEN [ret |-> WC_ERROR_DB_OPEN_FAILED, storage |-> storage,
          events |-> <<Event("log_open", lo), Event("db_open", do)>>
                     \o (IF "log_close" \in callbacks THEN <<Event("log_close", lo)>> ELSE <<>>)]
    ELSE [ret |-> WC_SUCCESS,
          storage |-> [ptr |-> 1, cb |-> callbacks, db |-> do, log |-> lo],
          events |-> <<Event("log_open", lo), Event("db_open", do)>>]

\* mutant: the recovery log is not closed
wc_storage_close_DbOnly(w) ==
    IF w.ptr = 0 THEN [ret |-> WC_ERROR_INVALID_ARGUMENT, events |-> <<>>]
    ELSE [ret |-> WC_SUCCESS,
          events |-> <<Event("wc_storage_close", w.ptr)>>
                     \o (IF w.db # 0 /\ "db_close" \in w.cb
                         THEN <<Event("db_close", w.db)>> ELSE <<>>)]

wc_storage_close(w) ==
    IF w.ptr = 0 THEN [ret |-> WC_ERROR_INVALID_ARGUMENT, events |-> <<>>]
    ELSE [ret |-> WC_SUCCESS,
          events |-> <<Event("wc_storage_close", w.ptr)>>
                     \o (IF w.db # 0 /\ "db_close" \in w.cb
                         THEN <<Event("db_close", w.db)>> ELSE <<>>)
                     \o (IF w.log # 0 /\ "log_close" \in w.cb
                         THEN <<Event("log_close", w.log)>> ELSE <<>>)]

\* accepted, when: what the caller's variables hold; ptrs: which of the two
\* output pointers the caller passes non-null; db: the host's database
\* (the stored seconds of each text, 0 without a record); qe: the error
\* code the terms_accepted callback answers with
wc_storage_are_terms_accepted(w, accepted, when, terms, db, qe, ptrs) ==
    IF w.ptr = 0 \/ terms = NULL_BSTR \/ ptrs = {}
    THEN [ret |-> WC_ERROR_INVALID_ARGUMENT, accepted |-> accepted, when |-> when, cb |-> FALSE]
    ELSE IF w.db = 0
    THEN [ret |-> WC_ERROR_DB_CLOSED, accepted |-> accepted, when |-> when, cb |-> FALSE]
    ELSE IF "terms_accepted" \notin w.cb
    THEN [ret |-> WC_ERROR_INVALID_ARGUMENT, accepted |-> accepted, when |-> when, cb |-> FALSE]
    ELSE IF qe # WC_SUCCESS
    THEN [ret |-> qe, accepted |-> accepted, when |-> when, cb |-> TRUE]
    ELSE Bind(db[terms], LAMBDA t:
         IF t = 0 \/ "when" \notin ptrs
         THEN [ret |-> WC_SUCCESS,
               accepted |-> IF "accepted" \in ptrs THEN (IF t # 0 THEN 1 ELSE 0) ELSE accepted,
               when |-> when, cb |-> TRUE]
         ELSE IF t + WC_TIME_EPOCH < t
         THEN [ret |-> WC_ERROR_OVERFLOW, accepted |-> accepted, when |-> when, cb |-> TRUE]
         ELSE Bind(gmtime_r(t + WC_TIME_EPOCH), LAMBDA g:
              IF ~g.ok
              THEN [ret |-> WC_ERROR_DB_CORRUPT, accepted |-> accepted, when |-> when, cb |-> TRUE]
              ELSE [ret |-> WC_SUCCESS,
                    accepted |-> IF "accepted" \in ptrs THEN 1 ELSE accepted,
                    when |-> g.tm, cb |-> TRUE]))

\* now: the caller's struct tm, NULL_TM for a null pointer; clock: what
\* time(NULL) answers; ae: the error code the accept_terms callback answers
\* with
wc_storage_accept_terms(w, terms, now, tz, db, ae, clock) ==
    IF w.ptr = 0 \/ terms = NULL_BSTR
    THEN [ret |-> WC_ERROR_INVALID_ARGUMENT, db |-> db, cb |-> FALSE]
    ELSE IF w.db = 0
    THEN [ret |-> WC_ERROR_DB_CLOSED, db |-> db, cb |-> FALSE]
    ELSE IF "accept_terms" \notin w.cb
    THEN [ret |-> WC_ERROR_INVALID_ARGUMENT, db |-> db, cb |-> FALSE]
    ELSE Bind(IF now # NULL_TM THEN mktime(now, tz) ELSE clock, LAMBDA t:
         IF t = -1 \/ t < WC_TIME_EPOCH
         THEN [ret |-> IF now # NULL_TM THEN WC_ERROR_INVALID_ARGUMENT ELSE WC_ERROR_OVERFLOW,
               db |-> db, cb |-> FALSE]
         ELSE [ret |-> ae,
               db |-> IF ae = WC_SUCCESS THEN [db EXCEPT ![terms] = t - WC_TIME_EPOCH] ELSE db,
               cb |-> TRUE])

\* any: what the caller's variable holds, NOWRITE standing for a null
\* pointer; ko: what the any_terms callback answers, [ret, any]
wc_storage_have_accepted_terms(w, any, ko) ==
    IF w.ptr = 0 \/ any = NOWRITE
    THEN [ret |-> WC_ERROR_INVALID_ARGUMENT, accepted |-> any, cb |-> FALSE]
    ELSE IF w.db = 0
    THEN [ret |-> WC_ERROR_DB_CLOSED, accepted |-> any, cb |-> FALSE]
    ELSE IF "any_terms" \notin w.cb
    THEN [ret |-> WC_ERROR_INVALID_ARGUMENT, accepted |-> any, cb |-> FALSE]
    ELSE [ret |-> ko.ret, accepted |-> IF ko.any = NOWRITE THEN any ELSE ko.any, cb |-> TRUE]

\* the loop of wc_storage_enumerate_terms from index i down to 1: every
\* record keeps its text and has its time converted
RECURSIVE EnumerateConvert(_, _)
EnumerateConvert(dbterms, i) ==
    IF i = 0 THEN [ok |-> TRUE, terms |-> <<>>]
    ELSE Bind(gmtime_r(dbterms[i].when), LAMBDA g:
         IF ~g.ok THEN [ok |-> FALSE, terms |-> <<>>]
         ELSE Bind(EnumerateConvert(dbterms, i - 1), LAMBDA rest:
              IF ~rest.ok THEN rest
              ELSE [ok |-> TRUE,
                    terms |-> Append(rest.terms, [when |-> g.tm, text |-> dbterms[i].text])]))

\* hasbuf: the caller passes a buffer; count: the capacity the caller
\* passes, NOWRITE for a null pointer; lo: what the all_terms callback
\* answers, [ret, count, dbterms]
wc_storage_enumerate_terms(w, hasbuf, count, lo) ==
    IF w.ptr = 0 \/ count = NOWRITE
    THEN [ret |-> WC_ERROR_INVALID_ARGUMENT, terms |-> <<>>, count |-> count, cb |-> FALSE]
    ELSE IF w.db = 0
    THEN [ret |-> WC_ERROR_DB_CLOSED, terms |-> <<>>, count |-> count, cb |-> FALSE]
    ELSE IF "all_terms" \notin w.cb
    THEN [ret |-> WC_ERROR_INVALID_ARGUMENT, terms |-> <<>>, count |-> count, cb |-> FALSE]
    ELSE IF lo.ret = WC_SUCCESS /\ ~hasbuf
    THEN [ret |-> WC_ERROR_INSUFFICIENT_CAPACITY, terms |-> <<>>, count |-> lo.count, cb |-> TRUE]
    ELSE IF lo.ret # WC_SUCCESS
    THEN [ret |-> lo.ret, terms |-> <<>>, count |-> lo.count, cb |-> TRUE]
    ELSE Bind(EnumerateConvert(lo.dbterms, lo.count), LAMBDA conv:
         IF ~conv.ok
         THEN [ret |-> WC_ERROR_DB_CORRUPT, terms |-> <<>>, count |-> lo.count, cb |-> TRUE]
         ELSE [ret |-> WC_SUCCESS, terms |-> conv.terms, count |-> lo.count, cb |-> TRUE])

\* mutant: the object is handed out although connect returned null
wc_server_connect_WriteOnFail(hasout, server, callbacks, h) ==
    IF ~hasout \/ callbacks = NULL_CALLBACKS \/ "connect" \notin callbacks
    THEN [ret |-> WC_ERROR_INVALID_ARGUMENT, server |-> server, events |-> <<>>]
    ELSE [ret |-> IF h = 0 THEN WC_ERROR_CONNECT_FAILED ELSE WC_SUCCESS,
          server |-> [ptr |-> 1, cb |-> callbacks, conn |-> h],
          events |-> <<Event("connect", h)>>]

\* hasout: the output pointer is not null; h: the handle connect returns
wc_server_connect(hasout, server, callbacks, h) ==
    IF ~hasout \/ callbacks = NULL_CALLBACKS \/ "connect" \notin callbacks
    THEN [ret |-> WC_ERROR_INVALID_ARGUMENT, server |-> server, events |-> <<>>]
    ELSE IF h = 0
    THEN [ret |-> WC_ERROR_CONNECT_FAILED, server |-> server,
          events |-> <<Event("connect", h)>>]
    ELSE [ret |-> WC_SUCCESS, server |-> [ptr |-> 1, cb |-> callbacks, conn |-> h],
          events |-> <<Event("connect", h)>>]

wc_server_disconnect(c) ==
    IF c.ptr = 0 THEN [ret |-> WC_ERROR_INVALID_ARGUMENT, events |-> <<>>]
    ELSE [ret |-> WC_SUCCESS,
          events |-> <<Event("wc_server_disconnect", c.ptr)>>
                     \o (IF c.conn # 0 /\ "disconnect" \in c.cb
                         THEN <<Event("disconnect", c.conn)>> ELSE <<>>)]

\* terms: what the caller's bstring holds; fo: what the get_terms callback
\* answers, [ret, text], text = NULL_BSTR when it leaves *terms alone
wc_server_get_terms(c, terms, fo) ==
    IF c.ptr = 0 THEN [ret |-> WC_ERROR_INVALID_ARGUMENT, terms |-> terms, cb |-> FALSE]
    ELSE IF c.conn = 0 THEN [ret |-> WC_ERROR_NOT_CONNECTED, terms |-> terms, cb |-> FALSE]
    ELSE IF "get_terms" \notin c.cb
    THEN [ret |-> WC_ERROR_INVALID_ARGUMENT, terms |-> terms, cb |-> FALSE]
    ELSE [ret |-> fo.ret, terms |-> IF fo.text = NULL_BSTR THEN terms ELSE fo.text, cb |-> TRUE]

\* hasout: the output pointer is not null; h: the handle startup returns
wc_ui_startup(hasout, ui, callbacks, h) ==
    IF ~hasout \/ callbacks = NULL_CALLBACKS \/ "startup" \notin callbacks
    THEN [ret |-> WC_ERROR_INVALID_ARGUMENT, ui |-> ui, events |-> <<>>]
    ELSE IF h = 0
    THEN [ret |-> WC_ERROR_STARTUP_FAILED, ui |-> ui, events |-> <<Event("startup", h)>>]
    ELSE [ret |-> WC_SUCCESS, ui |-> [ptr |-> 1, cb |-> callbacks, hwnd |-> h],
          events |-> <<Event("startup", h)>>]

wc_ui_shutdown(ui) ==
    IF ui.ptr = 0 THEN [ret |-> WC_ERROR_INVALID_ARGUMENT, events |-> <<>>]
    ELSE [ret |-> WC_SUCCESS,
          events |-> <<Event("wc_ui_shutdown", ui.ptr)>>
                     \o (IF ui.hwnd # 0 /\ "shutdown" \in ui.cb
                         THEN <<Event("shutdown", ui.hwnd)>> ELSE <<>>)]

\* accepted: what the caller's int holds; uo: what the show_terms callback
\* answers, [ret, write], write = NOWRITE when it leaves *accepted alone
wc_ui_show_terms(ui, accepted, terms, uo) ==
    IF ui.ptr = 0 \/ terms = NULL_BSTR
    THEN [ret |-> WC_ERROR_INVALID_ARGUMENT, accepted |-> accepted, cb |-> FALSE]
    ELSE IF ui.hwnd = 0
    THEN [ret |-> WC_ERROR_HEADLESS, accepted |-> accepted, cb |-> FALSE]
    ELSE IF "show_terms" \notin ui.cb
    THEN [ret |-> WC_ERROR_INVALID_ARGUMENT, accepted |-> accepted, cb |-> FALSE]
    ELSE [ret |-> uo.ret, accepted |-> IF uo.write = NOWRITE THEN accepted ELSE uo.write,
          cb |-> TRUE]

wc_wallet_configure(wallet, storage, server, ui) ==
    IF storage.ptr = 0 \/ server.ptr = 0 \/ ui.ptr = 0
    THEN [ret |-> WC_ERROR_INVALID_ARGUMENT, wallet |-> wallet]
    ELSE [ret |-> WC_SUCCESS,
          wallet |-> [ptr |-> 1, storage |-> storage, server |-> server, ui |-> ui,
                      terms |-> NULL_BSTR, accepted |-> 0, terms_tm |-> TM_ZERO]]

\* "e = e || f()" when the facade is present: f is called only while e is 0
ReleaseStep(acc, present, f) ==
    IF ~present THEN acc
    ELSE IF acc.e # 0 THEN [acc EXCEPT !.e = 1]
    ELSE Bind(f, LAMBDA released:
              [e |-> IF released.ret # 0 THEN 1 ELSE 0,
               events |-> acc.events \o released.events])

wc_wallet_release(wallet) ==
    IF wallet.ptr = 0 THEN [ret |-> WC_ERROR_INVALID_ARGUMENT, events |-> <<>>]
    ELSE Bind(ReleaseStep(
                  ReleaseStep(
                      ReleaseStep([e |-> WC_SUCCESS, events |-> <<>>],
                                  wallet.ui.ptr # 0, wc_ui_shutdown(wallet.ui)),
                      wallet.server.ptr # 0, wc_server_disconnect(wallet.server)),
                  wallet.storage.ptr # 0, wc_storage_close(wallet.storage)),
              LAMBDA freed: [ret |-> freed.e, events |-> freed.events])

(***************************************************************************)
(* wc_wallet_terms_of_service.  A frame st carries the wallet, the host's  *)
(* database, the error code e, whether the call is still running, and the  *)
(* history of the facade calls made: per call its name, its result,        *)
(* whether it reached the host's callback, and wallet->accepted after it.  *)
(***************************************************************************)
Step(f, ret, cb, acc) == [f |-> f, ret |-> ret, cb |-> cb, acc |-> acc]

\* mutant: the cached text is never used
HaveTerms_Never(w) == FALSE

\* "wallet->terms"
HaveTerms(w) == w.terms # NULL_BSTR

\* mutant: the acceptance cache is never used
CachedAccepted_Never(w) == FALSE

\* "wallet->accepted"
CachedAccepted(w) == w.accepted # 0

\* mutant: the result of wc_storage_accept_terms is returned
AcceptTermsResult_Returned(e) == e

\* the result of wc_storage_accept_terms is dropped
AcceptTermsResult(e) == WC_SUCCESS

\* "Fetch the current terms of service from the server."
TosFetch(st, o) ==
    IF HaveTerms(st.w) THEN st
    ELSE Bind(wc_server_get_terms(st.w.server, st.w.terms, o.fetch), LAMBDA got:
         Bind(IF got.ret = WC_SUCCESS /\ got.terms = NULL_BSTR THEN WC_ERROR_UNKNOWN ELSE got.ret,
              LAMBDA e:
                 [st EXCEPT !.w.terms = got.terms,
                            !.w.accepted = IF e = WC_SUCCESS THEN 0 ELSE @,
                            !.w.terms_tm = IF e = WC_SUCCESS THEN TM_ZERO ELSE @,
                            !.e = e,
                            !.run = (e = WC_SUCCESS),
                            !.trace = Append(@, Step("get_terms", got.ret, got.cb,
                                                     IF e = WC_SUCCESS THEN 0
                                                     ELSE st.w.accepted))]))

\* "Check if the user previously accepted these terms."
TosQuery(st, o) ==
    IF ~st.run \/ CachedAccepted(st.w) THEN st
    ELSE Bind(wc_storage_are_terms_accepted(st.w.storage, st.w.accepted, st.w.terms_tm,
                                            st.w.terms, st.db, o.query, {"accepted", "when"}),
              LAMBDA asked:
                 [st EXCEPT !.w.accepted = asked.accepted,
                            !.w.terms_tm = asked.when,
                            !.e = asked.ret,
                            !.run = (asked.ret = WC_SUCCESS),
                            !.trace = Append(@, Step("terms_accepted", asked.ret, asked.cb,
                                                     asked.accepted))])

\* "If the user has accepted the terms, cache the acceptance."
TosAccept(st, o, tz) ==
    Bind(gmtime_r(o.now), LAMBDA g:
        IF ~g.ok THEN [st EXCEPT !.e = WC_ERROR_OVERFLOW, !.run = FALSE]
        ELSE Bind(wc_storage_accept_terms(st.w.storage, st.w.terms, g.tm, tz, st.db, o.accept, o.now),
                  LAMBDA saved:
                     [st EXCEPT !.w.terms_tm = g.tm,
                                !.db = saved.db,
                                !.e = AcceptTermsResult(saved.ret),
                                !.run = (AcceptTermsResult(saved.ret) = WC_SUCCESS),
                                !.trace = Append(@, Step("accept_terms", saved.ret, saved.cb,
                                                         st.w.accepted))]))

\* "If the terms have not been accepted, show them to the user."
TosPrompt(st, o, tz) ==
    IF ~st.run \/ CachedAccepted(st.w) THEN st
    ELSE Bind(wc_ui_show_terms(st.w.ui, st.w.accepted, st.w.terms, o.ui), LAMBDA shown:
         Bind([st EXCEPT !.w.accepted = shown.accepted,
                         !.e = shown.ret,
                         !.run = (shown.ret = WC_SUCCESS),
                         !.trace = Append(@, Step("show_terms", shown.ret, shown.cb,
                                                  shown.accepted))],
              LAMBDA st2: IF st2.run /\ st2.w.accepted # 0 THEN TosAccept(st2, o, tz) ELSE st2))

\* "If the terms have already been accepted, return cached values."
\* outs: the output pointers the caller passes; out: the caller's variables
TosReturn(st, outs, out) ==
    [w |-> st.w, db |-> st.db, ret |-> st.e, trace |-> st.trace,
     out |-> IF ~st.run THEN out
             ELSE [terms |-> IF "terms" \in outs THEN st.w.terms ELSE out.terms,
                   accepted |-> IF "accepted" \in outs THEN st.w.accepted ELSE out.accepted,
                   when |-> IF "when" \in outs /\ st.w.accepted # 0 THEN st.w.terms_tm
                            ELSE out.when]]

\* o: what the host's callbacks answer and what time(NULL) returns
wc_wallet_terms_of_service(wallet, db, tz, o, outs, out) ==
    IF wallet.ptr = 0
    THEN [w |-> wallet, db |-> db, ret |-> WC_ERROR_INVALID_ARGUMENT, trace |-> <<>>, out |-> out]
    ELSE TosReturn(
             TosPrompt(
                 TosQuery(
                     TosFetch([w |-> wallet, db |-> db, e |-> WC_SUCCESS, run |-> TRUE,
                               trace |-> <<>>], o),
                     o),
                 o, tz),
             outs, out)

(***************************************************************************)
(* The host and the application that uses a wallet                         *)
(***************************************************************************)
MaxCalls == 3       \* calls of wc_wallet_terms_of_service in a run
MaxWallets == 2     \* wallets configured in a run

TermsTexts == {"terms v1", "terms v2"}

ALL_CALLBACKS ==
    {"log_open", "log_close", "db_open", "db_close", "terms_accepted", "accept_terms",
     "any_terms", "connect", "disconnect", "get_terms", "startup", "shutdown", "show_terms"}

\* the callback tables of the host: complete, or without some of the
\* callbacks whose absence the library allows for
CallbackSamples ==
    {ALL_CALLBACKS,
     ALL_CALLBACKS \ {"log_close"},
     ALL_CALLBACKS \ {"db_close", "disconnect"},
     ALL_CALLBACKS \ {"log_close", "db_close", "disconnect", "shutdown"},
     ALL_CALLBACKS \ {"accept_terms"},
     ALL_CALLBACKS \ {"show_terms"},
     ALL_CALLBACKS \ {"log_open"},
     ALL_CALLBACKS \ {"db_open", "log_close"},
     ALL_CALLBACKS \ {"connect"},
     ALL_CALLBACKS \ {"startup"}}

TzSamples == {0, 3600}

\* the handle a host callback returns: the k-th of those of wallet gen
Handle(gen, k) == 4 * gen + k

FetchOutcomes ==
    {[ret |-> WC_SUCCESS, text |-> t] : t \in TermsTexts \cup {NULL_BSTR}}
    \cup {[ret |-> WC_ERROR_NOT_CONNECTED, text |-> NULL_BSTR],
          [ret |-> WC_ERROR_UNKNOWN, text |-> "terms v1"]}

QueryOutcomes == {WC_SUCCESS, WC_ERROR_DB_CORRUPT}

UiOutcomes ==
    {[ret |-> WC_SUCCESS, write |-> 1], [ret |-> WC_SUCCESS, write |-> 0],
     [ret |-> WC_ERROR_HEADLESS, write |-> NOWRITE], [ret |-> WC_ERROR_UNKNOWN, write |-> 1]}

AcceptOutcomes == {WC_SUCCESS, WC_ERROR_DB_CLOSED}

\* what the any_terms callback answers
AnyOutcomes ==
    {[ret |-> WC_SUCCESS, any |-> 1], [ret |-> WC_SUCCESS, any |-> 0],
     [ret |-> WC_ERROR_DB_CLOSED, any |-> NOWRITE]}

ClockSamples == {WC_TIME_EPOCH - 1, WC_TIME_EPOCH + 4000, TIME_T_FAR}

\* what the host can answer during one call, given the wallet's caches
TosOracles(w) ==
    {[fetch |-> f, query |-> q, ui |-> u, accept |-> a, now |-> n] :
        f \in (IF HaveTerms(w) THEN {[ret |-> WC_SUCCESS, text |-> NULL_BSTR]} ELSE FetchOutcomes),
        q \in (IF HaveTerms(w) /\ CachedAccepted(w) THEN {WC_SUCCESS} ELSE QueryOutcomes),
        u \in (IF HaveTerms(w) /\ CachedAccepted(w) THEN {[ret |-> WC_SUCCESS, write |-> 0]}
               ELSE UiOutcomes),
        a \in (IF HaveTerms(w) /\ CachedAccepted(w) THEN {WC_SUCCESS} ELSE AcceptOutcomes),
        n \in (IF HaveTerms(w) /\ CachedAccepted(w) THEN {WC_TIME_EPOCH + 4000}
               ELSE ClockSamples)}

OutArgSamples == {{"terms", "accepted", "when"}, {"accepted"}, {}}

\* the caller's output variables before a call
OUT_INIT == [terms |-> NULL_BSTR, accepted |-> NOWRITE, when |-> TM_ZERO]

\* the last library call: its result, the history of the calls it made,
\* and what held when it was entered
CALL_NONE ==
    [op |-> "none", ret |-> WC_SUCCESS, trace |-> <<>>, events |-> <<>>,
     hasout |-> FALSE, callbacks |-> NULL_CALLBACKS, pre |-> NULL_WALLET, outs |-> {}, out |-> OUT_INIT,
     rejected |-> FALSE, swallowed |-> "no", lost |-> NULL_BSTR]

\* history: handles the open callbacks returned for the current facades;
\* rejected: the user's last answer on this wallet was a rejection;
\* swallowed: the last terms of service call lost the acceptance it got
\* ("same": on this wallet, "other": on a wallet released since);
\* granted: on this wallet a storage query or a prompt has returned
\* success reporting the terms as accepted
GHOST_INIT ==
    [log |-> 0, db |-> 0, conn |-> 0, hwnd |-> 0,
     rejected |-> FALSE, swallowed |-> "no", lost |-> NULL_BSTR, calls |-> 0,
     granted |-> FALSE]

InitWalletIdle ==
    /\ wpc = "idle"
    /\ host = [cbs |-> {}, tz |-> 0, db |-> [t \in TermsTexts |-> 0], gen |-> 0]
    /\ app = [storage |-> NULL_STORAGE, server |-> NULL_SERVER, ui |-> NULL_UI]
    /\ appWallet = NULL_WALLET
    /\ wcall = CALL_NONE
    /\ wghost = GHOST_INIT

InitWalletStart ==
    /\ wpc = "start"
    /\ host \in {[cbs |-> c, tz |-> z, db |-> [t \in TermsTexts |-> 0], gen |-> 0] :
                    c \in CallbackSamples, z \in TzSamples}
    /\ app = [storage |-> NULL_STORAGE, server |-> NULL_SERVER, ui |-> NULL_UI]
    /\ appWallet = NULL_WALLET
    /\ wcall = CALL_NONE
    /\ wghost = GHOST_INIT

\* wc_storage_open(&storage, &callbacks, logurl, dburl)
StorageOpen ==
    /\ wpc = "start"
    /\ \E lo \in {0, Handle(host.gen, 1)}, do \in {0, Handle(host.gen, 2)},
          hasout \in BOOLEAN, callbacks \in {host.cbs, NULL_CALLBACKS} :
       \E r \in {wc_storage_open(hasout, app.storage, callbacks, lo, do)} :
          /\ app' = [app EXCEPT !.storage = r.storage]
          /\ wcall' = [CALL_NONE EXCEPT !.op = "storage_open", !.ret = r.ret,
                                        !.events = r.events, !.hasout = hasout,
                                        !.callbacks = callbacks]
          /\ wghost' = IF r.ret = WC_SUCCESS THEN [wghost EXCEPT !.log = lo, !.db = do]
                       ELSE wghost
          /\ wpc' = IF r.ret = WC_SUCCESS THEN "storage" ELSE "start"
    /\ UNCHANGED <<host, appWallet, notWalletVars>>

\* wc_server_connect(&server, &callbacks, url)
ServerConnect ==
    /\ wpc = "storage"
    /\ \E h \in {0, Handle(host.gen, 3)}, hasout \in BOOLEAN,
          callbacks \in {host.cbs, NULL_CALLBACKS} :
       \E r \in {wc_server_connect(hasout, app.server, callbacks, h)} :
          /\ app' = [app EXCEPT !.server = r.server]
          /\ wcall' = [CALL_NONE EXCEPT !.op = "server_connect", !.ret = r.ret,
                                        !.events = r.events, !.hasout = hasout,
                                        !.callbacks = callbacks]
          /\ wghost' = IF r.ret = WC_SUCCESS THEN [wghost EXCEPT !.conn = h] ELSE wghost
          /\ wpc' = IF r.ret = WC_SUCCESS THEN "server" ELSE "storage"
    /\ UNCHANGED <<host, appWallet, notWalletVars>>

\* wc_ui_startup(&ui, &callbacks, params)
UiStartup ==
    /\ wpc = "server"
    /\ \E h \in {0, Handle(host.gen, 4)}, hasout \in BOOLEAN,
          callbacks \in {host.cbs, NULL_CALLBACKS} :
       \E r \in {wc_ui_startup(hasout, app.ui, callbacks, h)} :
          /\ app' = [app EXCEPT !.ui = r.ui]
          /\ wcall' = [CALL_NONE EXCEPT !.op = "ui_startup", !.ret = r.ret,
                                        !.events = r.events, !.hasout = hasout,
                                        !.callbacks = callbacks]
          /\ wghost' = IF r.ret = WC_SUCCESS THEN [wghost EXCEPT !.hwnd = h] ELSE wghost
          /\ wpc' = IF r.ret = WC_SUCCESS THEN "ui" ELSE "server"
    /\ UNCHANGED <<host, appWallet, notWalletVars>>

\* wc_storage_have_accepted_terms(storage, &any) on the application's
\* handle, before the wallet takes the facades over
HaveAcceptedTerms ==
    /\ wpc \in {"storage", "server", "ui"}
    /\ \E ko \in AnyOutcomes :
       \E r \in {wc_storage_have_accepted_terms(app.storage, 0, ko)} :
          wcall' = [CALL_NONE EXCEPT !.op = "have_accepted_terms", !.ret = r.ret,
                                    !.trace = <<Step("any_terms", r.ret, r.cb, r.accepted)>>]
    /\ UNCHANGED <<wpc, host, app, appWallet, wghost, notWalletVars>>

\* wc_wallet_configure(&wallet, storage, server, ui), also before all of
\* the facades are there
WalletConfigure ==
    /\ wpc \in {"storage", "server", "ui"}
    /\ \E r \in {wc_wallet_configure(appWallet, app.storage, app.server, app.ui)} :
          /\ appWallet' = r.wallet
          /\ wcall' = [CALL_NONE EXCEPT !.op = "configure", !.ret = r.ret]
          /\ wpc' = IF r.ret = WC_SUCCESS THEN "ready" ELSE wpc
    /\ UNCHANGED <<host, app, wghost, notWalletVars>>

\* wc_wallet_terms_of_service(wallet, &terms, &accepted, &when) with the
\* output pointers in outs, the others null
TermsOfService ==
    /\ wpc = "ready"
    /\ wghost.calls < MaxCalls
    /\ \E o \in TosOracles(appWallet), outs \in OutArgSamples :
       \E r \in {wc_wallet_terms_of_service(appWallet, host.db, host.tz, o, outs, OUT_INIT)} :
          /\ appWallet' = r.w
          /\ host' = [host EXCEPT !.db = r.db]
          /\ wcall' = [op |-> "tos", ret |-> r.ret, trace |-> r.trace, events |-> <<>>,
                       hasout |-> FALSE, callbacks |-> NULL_CALLBACKS,
                       pre |-> appWallet, outs |-> outs, out |-> r.out,
                       rejected |-> wghost.rejected, swallowed |-> wghost.swallowed,
                       lost |-> wghost.lost]
          /\ \E answered \in {{r.trace[i].acc : i \in {j \in 1..Len(r.trace) :
                                    r.trace[j].f = "show_terms" /\ r.trace[j].ret = WC_SUCCESS}}},
                lostNow \in {\E i \in 1..Len(r.trace) :
                                    r.trace[i].f = "accept_terms" /\ r.trace[i].ret # WC_SUCCESS} :
                wghost' = [wghost EXCEPT
                              !.calls = @ + 1,
                              !.rejected = IF answered = {} THEN @ ELSE answered = {0},
                              !.swallowed = IF lostNow THEN "same" ELSE "no",
                              !.lost = IF lostNow THEN r.w.terms ELSE NULL_BSTR,
                              !.granted = @ \/ \E i \in 1..Len(r.trace) :
                                                /\ r.trace[i].f \in {"terms_accepted", "show_terms"}
                                                /\ r.trace[i].ret = WC_SUCCESS
                                                /\ r.trace[i].acc # 0]
    /\ UNCHANGED <<wpc, app, notWalletVars>>

\* wc_wallet_release(wallet); the application forgets its handles
WalletRelease ==
    /\ wpc = "ready"
    /\ \E r \in {wc_wallet_release(appWallet)} :
          wcall' = [CALL_NONE EXCEPT !.op = "release", !.ret = r.ret, !.events = r.events,
                                     !.pre = appWallet]
    /\ appWallet' = NULL_WALLET
    /\ app' = [storage |-> NULL_STORAGE, server |-> NULL_SERVER, ui |-> NULL_UI]
    /\ host' = [host EXCEPT !.gen = @ + 1]
    /\ wghost' = [wghost EXCEPT !.rejected = FALSE,
                                !.swallowed = IF @ = "same" THEN "other" ELSE @,
                                !.granted = FALSE]
    /\ wpc' = IF host.gen + 1 < MaxWallets THEN "start" ELSE "done"
    /\ UNCHANGED notWalletVars

NextWallet ==
    \/ StorageOpen
    \/ ServerConnect
    \/ UiStartup
    \/ HaveAcceptedTerms
    \/ WalletConfigure
    \/ TermsOfService
    \/ WalletRelease

(***************************************************************************)
(* Terms storage scenario (test wc_storage_terms)                          *)
(*                                                                         *)
(* The host keeps g_terms, a map from accepted text to the time_t that     *)
(* accept_terms was handed: keys is the set of texts with a record, when   *)
(* the stored value of each text (0 without a record, which is what the    *)
(* terms_accepted callback answers for a text it does not find).           *)
(***************************************************************************)
STORAGE_CALLBACKS == ALL_CALLBACKS \cup {"any_terms", "all_terms"}

StorageTables ==
    {STORAGE_CALLBACKS,
     STORAGE_CALLBACKS \ {"terms_accepted", "any_terms"},
     STORAGE_CALLBACKS \ {"accept_terms", "all_terms"}}

\* g_terms iterates in the order of its keys
TermsOrder == <<"terms v1", "terms v2">>

\* the struct tm values the test passes as now; NULL_TM asks for the clock
NowSamples ==
    {NULL_TM} \cup {[set |-> TRUE, utc |-> WC_TIME_EPOCH + d] : d \in {-1, 0, 1, 3600, 4000}}

StorageClockSamples == {WC_TIME_EPOCH - 1, WC_TIME_EPOCH, WC_TIME_EPOCH + 4000}

CapacitySamples == {NOWRITE, 0, 1, 2}

\* any_terms of the test: *any = !g_terms.empty()
HostAnyTerms(h, e) ==
    IF e # WC_SUCCESS THEN [ret |-> e, any |-> NOWRITE]
    ELSE [ret |-> WC_SUCCESS, any |-> IF h.keys # {} THEN 1 ELSE 0]

\* all_terms of the test: the required count when the buffer is missing or
\* too small, the records in key order otherwise
HostAllTerms(h, hasbuf, count, e) ==
    Bind(SelectSeq(TermsOrder, LAMBDA t: t \in h.keys), LAMBDA recs:
        IF e # WC_SUCCESS THEN [ret |-> e, count |-> count, dbterms |-> <<>>]
        ELSE IF ~hasbuf \/ count < Len(recs)
        THEN [ret |-> WC_ERROR_INSUFFICIENT_CAPACITY, count |-> Len(recs), dbterms |-> <<>>]
        ELSE [ret |-> WC_SUCCESS, count |-> Len(recs),
              dbterms |-> SubSeq([k \in 1..Len(recs) |->
                                     [when |-> h.when[recs[k]], text |-> recs[k]]],
                                 1, Len(recs))])

SCALL_NONE ==
    [op |-> "none", ret |-> WC_SUCCESS, cb |-> FALSE, text |-> NULL_BSTR, ptrs |-> {},
     accepted |-> NOWRITE, when |-> TM_ZERO, count |-> NOWRITE, terms |-> <<>>]

InitStorageIdle ==
    /\ spc = "idle"
    /\ sw = NULL_STORAGE
    /\ shost = [tz |-> 0, when |-> [t \in TermsTexts |-> 0], keys |-> {}]
    /\ scall = SCALL_NONE

InitStorageStart ==
    /\ spc = "open"
    /\ sw \in {[ptr |-> 1, cb |-> c, db |-> Handle(0, 2), log |-> Handle(0, 1)] :
                  c \in StorageTables}
    /\ shost \in {[tz |-> z, when |-> [t \in TermsTexts |-> 0], keys |-> {}] : z \in TzSamples}
    /\ scall = SCALL_NONE

\* wc_storage_accept_terms(w, text, now)
StorageAcceptTerms ==
    /\ spc = "open"
    /\ \E text \in TermsTexts, now \in NowSamples, ae \in AcceptOutcomes,
          clock \in StorageClockSamples :
         \E r \in {wc_storage_accept_terms(sw, text, now, shost.tz, shost.when, ae, clock)} :
            /\ shost' = [shost EXCEPT !.when = r.db,
                                      !.keys = IF r.cb /\ r.ret = WC_SUCCESS
                                               THEN @ \cup {text} ELSE @]
            /\ scall' = [SCALL_NONE EXCEPT !.op = "accept_terms", !.ret = r.ret,
                                           !.cb = r.cb, !.text = text, !.when = now]
    /\ UNCHANGED <<spc, sw>>
    /\ UNCHANGED notStorageVars

\* wc_storage_are_terms_accepted(w, &accepted, &when, text)
StorageAreTermsAccepted ==
    /\ spc = "open"
    /\ \E text \in TermsTexts \cup {NULL_BSTR}, ptrs \in SUBSET {"accepted", "when"},
          qe \in QueryOutcomes :
         \E r \in {wc_storage_are_terms_accepted(sw, NOWRITE, TM_ZERO, text, shost.when,
                                                 qe, ptrs)} :
            scall' = [SCALL_NONE EXCEPT !.op = "are_terms_accepted", !.ret = r.ret,
                                        !.cb = r.cb, !.text = text, !.ptrs = ptrs,
                                        !.accepted = r.accepted, !.when = r.when]
    /\ UNCHANGED <<spc, sw, shost>>
    /\ UNCHANGED notStorageVars

\* wc_storage_have_accepted_terms(w, &accepted)
StorageHaveAcceptedTerms ==
    /\ spc = "open"
    /\ \E any \in {NOWRITE, 0}, ke \in QueryOutcomes :
         \E r \in {wc_storage_have_accepted_terms(sw, any, HostAnyTerms(shost, ke))} :
            scall' = [SCALL_NONE EXCEPT !.op = "have_accepted_terms", !.ret = r.ret,
                                        !.cb = r.cb, !.accepted = r.accepted,
                                        !.ptrs = IF any = NOWRITE THEN {} ELSE {"accepted"}]
    /\ UNCHANGED <<spc, sw, shost>>
    /\ UNCHANGED notStorageVars

\* wc_storage_enumerate_terms(w, terms, &count)
StorageEnumerateTerms ==
    /\ spc = "open"
    /\ \E hasbuf \in BOOLEAN, count \in CapacitySamples, le \in QueryOutcomes :
         \E r \in {wc_storage_enumerate_terms(sw, hasbuf, count,
                                              HostAllTerms(shost, hasbuf, count, le))} :
            scall' = [SCALL_NONE EXCEPT !.op = "enumerate_terms", !.ret = r.ret,
                                        !.cb = r.cb, !.count = r.count, !.terms = r.terms]
    /\ UNCHANGED <<spc, sw, shost>>
    /\ UNCHANGED notStorageVars

NextStorage ==
    \/ StorageAcceptTerms
    \/ StorageAreTermsAccepted
    \/ StorageHaveAcceptedTerms
    \/ StorageEnumerateTerms

(***************************************************************************)
(* Library initialisation: wc_init and the static webcashwalletv1_midstate *)
(*                                                                         *)
(* A struct sha256_ctx is kept as the message it has absorbed, a sequence  *)
(* of chunks [kind, of, len]: the tag string (15 bytes), a digest (32      *)
(* bytes, "of" being the message it is the digest of) or the padding       *)
(* sha256_done appends.  Its field s is the state after compressing the    *)
(* whole 64-byte blocks absorbed, its field bytes the number of bytes.     *)
(* Threads interleave at the statements of wc_init and at the two reads    *)
(* wc_derive_serials makes of the midstate.                                *)
(***************************************************************************)
MaxThreads == 2
MaxThreadCalls == 2

Threads == 1..MaxThreads

TAG_LEN == 15           \* strlen("webcashwalletv1")
SHA256_BLOCK == 64

KIND_TAG == 0
KIND_DIGEST == 1
KIND_PAD == 2

\* SHA256_INIT, and what sha256_init leaves
SHA256_INIT == [msg |-> <<>>, bytes |-> 0]
sha256_init(ctx) == SHA256_INIT

\* sha256_update(ctx, data, len)
sha256_update(ctx, chunk) == [msg |-> Append(ctx.msg, chunk), bytes |-> ctx.bytes + chunk.len]

\* the bytes sha256_done adds: 0x80, zeros and the 64-bit length, up to the
\* end of a block
PadLen(bytes) == SHA256_BLOCK - ((bytes + 8) % SHA256_BLOCK) + 8

\* sha256_done(&hash, ctx): the digest of what was absorbed, and the context
\* with the padding absorbed as well
sha256_done(ctx) ==
    [hash |-> [kind |-> KIND_DIGEST, of |-> ctx.msg, len |-> HASH_BYTES],
     ctx |-> sha256_update(ctx, [kind |-> KIND_PAD, of |-> <<>>, len |-> PadLen(ctx.bytes)])]

\* the first k bytes of a message, the last chunk cut where they end
RECURSIVE TakeBytes(_, _)
TakeBytes(msg, k) ==
    IF k <= 0 \/ Len(msg) = 0 THEN <<>>
    ELSE IF msg[1].len <= k THEN <<msg[1]>> \o TakeBytes(Tail(msg), k - msg[1].len)
    ELSE <<[msg[1] EXCEPT !.len = k]>>

\* ctx->s: the compression of the whole blocks absorbed so far
StateOf(ctx) == TakeBytes(ctx.msg, SHA256_BLOCK * (ctx.bytes \div SHA256_BLOCK))

\* "webcashwalletv1", SHA256("webcashwalletv1"), and the midstate of
\* SHA256(tag) || SHA256(tag)
TAG_STR == [kind |-> KIND_TAG, of |-> <<>>, len |-> TAG_LEN]
TAG_DIGEST == [kind |-> KIND_DIGEST, of |-> <<TAG_STR>>, len |-> HASH_BYTES]
TAGGED_MIDSTATE == [msg |-> <<TAG_DIGEST, TAG_DIGEST>>, bytes |-> 2 * HASH_BYTES]

\* a read that has not happened
OBS_NONE == [bytes |-> -1, s |-> <<>>]

InitMidstateIdle ==
    /\ mpc = [t \in Threads |-> "idle"]
    /\ midstate = SHA256_INIT
    /\ mtag = [t \in Threads |-> TAG_DIGEST]
    /\ mobs = [t \in Threads |-> OBS_NONE]
    /\ mdone = 0
    /\ mcalls = [t \in Threads |-> 0]

\* the process after loading: the static initializer, no call made
InitMidstateStart == InitMidstateIdle

\* wc_init, lines 37-39: sha256_auto_detect(); sha256_init(&midstate)
InitBegin(t) ==
    /\ mpc[t] = "idle"
    /\ mcalls[t] < MaxThreadCalls
    /\ mcalls' = [mcalls EXCEPT ![t] = @ + 1]
    /\ midstate' = sha256_init(midstate)
    /\ mpc' = [mpc EXCEPT ![t] = "l40"]
    /\ UNCHANGED <<mtag, mobs, mdone, notMidstateVars>>

\* line 40: sha256_update(&midstate, tag_str, strlen(tag_str))
InitUpdateTag(t) ==
    /\ mpc[t] = "l40"
    /\ midstate' = sha256_update(midstate, TAG_STR)
    /\ mpc' = [mpc EXCEPT ![t] = "l41"]
    /\ UNCHANGED <<mtag, mobs, mdone, mcalls, notMidstateVars>>

\* line 41: sha256_done(&webcashwalletv1_tag, &midstate)
InitDoneTag(t) ==
    /\ mpc[t] = "l41"
    /\ LET r == sha256_done(midstate)
       IN  /\ mtag' = [mtag EXCEPT ![t] = r.hash]
           /\ midstate' = r.ctx
    /\ mpc' = [mpc EXCEPT ![t] = "l42"]
    /\ UNCHANGED <<mobs, mdone, mcalls, notMidstateVars>>

\* line 42: sha256_init(&midstate)
InitReset(t) ==
    /\ mpc[t] = "l42"
    /\ midstate' = sha256_init(midstate)
    /\ mpc' = [mpc EXCEPT ![t] = "l43"]
    /\ UNCHANGED <<mtag, mobs, mdone, mcalls, notMidstateVars>>

\* line 43: sha256_update(&midstate, tag.u8, 32)
InitUpdateFirst(t) ==
    /\ mpc[t] = "l43"
    /\ midstate' = sha256_update(midstate, mtag[t])
    /\ mpc' = [mpc EXCEPT ![t] = "l44"]
    /\ UNCHANGED <<mtag, mobs, mdone, mcalls, notMidstateVars>>

\* lines 44-45: sha256_update(&midstate, tag.u8, 32); return WC_SUCCESS
InitUpdateSecond(t) ==
    /\ mpc[t] = "l44"
    /\ midstate' = sha256_update(midstate, mtag[t])
    /\ mdone' = mdone + 1
    /\ mpc' = [mpc EXCEPT ![t] = "idle"]
    /\ UNCHANGED <<mtag, mobs, mcalls, notMidstateVars>>

\* wc_derive_serials(out, root, chaincode, depth, 1) up to the read of
\* webcashwalletv1_midstate.bytes in the block filling loop (line 684); the
\* application calls it once a wc_init has returned
DeriveReadBytes(t) ==
    /\ mpc[t] = "idle"
    /\ mdone > 0
    /\ mcalls[t] < MaxThreadCalls
    /\ mcalls' = [mcalls EXCEPT ![t] = @ + 1]
    /\ mobs' = [mobs EXCEPT ![t] = [bytes |-> midstate.bytes, s |-> <<>>]]
    /\ mpc' = [mpc EXCEPT ![t] = "l708"]
    /\ UNCHANGED <<midstate, mtag, mdone, notMidstateVars>>

\* the read of webcashwalletv1_midstate.s by sha256_midstate (line 708),
\* and the rest of the call
DeriveReadState(t) ==
    /\ mpc[t] = "l708"
    /\ mobs' = [mobs EXCEPT ![t].s = StateOf(midstate)]
    /\ mpc' = [mpc EXCEPT ![t] = "idle"]
    /\ UNCHANGED <<midstate, mtag, mdone, mcalls, notMidstateVars>>

NextMidstate ==
    \E t \in Threads :
        \/ InitBegin(t)
        \/ InitUpdateTag(t)
        \/ InitDoneTag(t)
        \/ InitReset(t)
        \/ InitUpdateFirst(t)
        \/ InitUpdateSecond(t)
        \/ DeriveReadBytes(t)
        \/ DeriveReadState(t)

(***************************************************************************)
(* Mining: wc_mining_8way                                                  *)
(*                                                                         *)
(* Here a struct sha256_ctx is [s, bytes, buf]: the 32 bytes of the state  *)
(* words, the 64-bit count of bytes absorbed (four limbs) and the bytes    *)
(* absorbed after the last whole block.                                    *)
(***************************************************************************)
NONCE_LEN == 4
TAIL_LEN == 12          \* nonce1, nonce2 lane and final
PAD_BYTE == 128         \* 0x80

\* x << 3 in uint64_t arithmetic
U64Shl3(x) ==
    LET t0 == x[1] * 8
        t1 == x[2] * 8 + (t0 \div LIMB)
        t2 == x[3] * 8 + (t1 \div LIMB)
        t3 == x[4] * 8 + (t2 \div LIMB)
    IN  <<t0 % LIMB, t1 % LIMB, t2 % LIMB, t3 % LIMB>>

\* stand-in for the SHA-256 compression of one block from the state s
\* (libsha2): 32 bytes that depend on the state and on the block
Transform(s, blk) ==
    Bind(BlockDigest(blk), LAMBDA d:
        SubSeq([j \in 1..HASH_BYTES |-> (d[j] + (j + 1) * s[j] + s[HASH_BYTES + 1 - j]) % 256],
               1, HASH_BYTES))

\* sha256_midstate((struct sha256*)out, s, blocks, m)
sha256_midstate_from(out, s, blocks, m) ==
    Bind([l \in 1..m |-> Transform(s, blocks[l])], LAMBDA digest:
        WriteAt(out, 0, [i \in 1..(m * HASH_BYTES) |->
                            digest[((i - 1) \div HASH_BYTES) + 1][((i - 1) % HASH_BYTES) + 1]]))

\* mutant: every lane given the first four bytes of nonce2
LaneNonce_First(nonce2, i) == Mid(nonce2, 0, NONCE_LEN)

\* "nonce2 + 4*i"
LaneNonce(nonce2, i) == Mid(nonce2, NONCE_LEN * i, NONCE_LEN)

\* the body of the loop for lane i
MiningBlock(blk, ctx, nonce1, nonce2, final, i) ==
    WriteAt(WriteAt(WriteAt(WriteAt(WriteAt(blk, 0, nonce1),
                                    4, LaneNonce(nonce2, i)),
                            8, final),
                    12, <<PAD_BYTE>>),
            56, BE64(U64Shl3(U64Plus(ctx.bytes, TAIL_LEN))))

\* The whole call.  The result carries hashes[] and blocks[] as the call
\* left them; *ctx is const and only read.
wc_mining_8way(hashes, ctx, nonce1, nonce2, final) ==
    Bind([l \in 1..LANES |-> MiningBlock(ZeroBytes(BLOCK_LEN), ctx, nonce1, nonce2, final, l - 1)],
         LAMBDA blocks:
            [hashes |-> sha256_midstate_from(hashes, ctx.s, blocks, LANES),
             blocks |-> blocks])

\* sha256_update(&ctx, data, len) followed by sha256_done(&hash, &ctx), as
\* the test computes hashes1: the bytes still buffered and the data are
\* padded with 0x80, zeros up to 8 bytes before the end of a block and the
\* bit length, and the blocks are compressed in turn
ScalarPadded(ctx, data) ==
    LET tail == ctx.buf \o data
    IN  tail \o <<PAD_BYTE>> \o ZeroBytes((119 - Len(tail)) % BLOCK_LEN)
             \o BE64(U64Shl3(U64Plus(ctx.bytes, Len(data))))

RECURSIVE CompressAll(_, _)
CompressAll(s, padded) ==
    IF Len(padded) = 0 THEN s
    ELSE CompressAll(Transform(s, SubSeq(padded, 1, BLOCK_LEN)),
                     SubSeq(padded, BLOCK_LEN + 1, Len(padded)))

ScalarHash(ctx, data) == CompressAll(ctx.s, ScalarPadded(ctx, data))

(***************************************************************************)
(* Inputs of the mining scenario                                           *)
(***************************************************************************)
\* the state words of SHA256_INIT, and another state
S_INIT ==
    <<106, 9, 230, 103, 187, 103, 174, 133, 60, 110, 243, 114, 165, 79, 245, 58,
      81, 14, 82, 127, 155, 5, 104, 140, 31, 131, 217, 171, 91, 224, 205, 25>>
S_OTHER == HASH_ABC

\* "abcdefghijklmnopqrstuvwxyz012345"
NONCES_TEST ==
    <<97, 98, 99, 100, 101, 102, 103, 104, 105, 106, 107, 108, 109, 110, 111, 112,
      113, 114, 115, 116, 117, 118, 119, 120, 121, 122, 48, 49, 50, 51, 52, 53>>

WC_MINING_FINAL == <<102, 81, 61, 61>>

\* byte counts that are whole blocks: none, one, three, one whose bit
\* length carries into the next limb, one whose bit length wraps 2^64
WholeBlockCounts ==
    {U64Of(0), U64Of(64), U64Of(192), U64Of(8192), <<LIMB - 64, LIMB - 1, LIMB - 1, 8191>>}

\* contexts with bytes still buffered: 4 of them, and 52 of them, which
\* with 12 more fill the block
PartialCtxSamples(s) ==
    {[s |-> s, bytes |-> U64Of(4), buf |-> Mid(NONCES_TEST, 0, 4)],
     [s |-> s, bytes |-> U64Of(116), buf |-> Mid(NONCES_TEST, 0, 32) \o Mid(NONCES_TEST, 0, 20)]}

CtxSamples ==
    UNION {{[s |-> s, bytes |-> b, buf |-> <<>>] : b \in WholeBlockCounts} \cup PartialCtxSamples(s) :
           s \in {S_INIT, S_OTHER}}

Nonce1Samples == {Mid(NONCES_TEST, 0, 4), <<0, 0, 0, 0>>, <<255, 128, 1, 0>>}
Nonce2Samples ==
    {NONCES_TEST, [i \in 1..32 |-> NONCES_TEST[((i - 1) % 4) + 1]], [i \in 1..32 |-> 255 - i]}
FinalSamples == {Mid(NONCES_TEST, 0, 4), WC_MINING_FINAL}

MiningArgSamples ==
    {[ctx |-> c, nonce1 |-> n1, nonce2 |-> n2, final |-> f] :
        c \in CtxSamples, n1 \in Nonce1Samples, n2 \in Nonce2Samples, f \in FinalSamples}

HASHES_INIT == [i \in 1..(LANES * HASH_BYTES) |-> UNWRITTEN]

(***************************************************************************)
(* Mining scenario (test wc_mining_8way): one call                         *)
(***************************************************************************)
InitMiningIdle ==
    /\ mnpc = "idle"
    /\ mnargs = [ctx |-> [s |-> S_INIT, bytes |-> U64Of(0), buf |-> <<>>],
                 nonce1 |-> <<>>, nonce2 |-> <<>>, final |-> <<>>]
    /\ mnctx = mnargs.ctx
    /\ mnhashes = <<>>
    /\ mnblocks = <<>>

InitMiningStart ==
    /\ mnpc = "start"
    /\ mnargs \in MiningArgSamples
    /\ mnctx = mnargs.ctx
    /\ mnhashes = HASHES_INIT
    /\ mnblocks = <<>>

\* wc_mining_8way(hashes2[0].u8, &ctx, nonce1, nonce2, final)
Mining8Way ==
    /\ mnpc = "start"
    /\ LET r == wc_mining_8way(mnhashes, mnctx, mnargs.nonce1, mnargs.nonce2, mnargs.final)
       IN  /\ mnhashes' = r.hashes
           /\ mnblocks' = r.blocks
    /\ mnpc' = "done"
    /\ UNCHANGED <<mnargs, mnctx, notMiningVars>>

NextMining == Mining8Way

(***************************************************************************)
(* One secret slot and the strings it owns                                 *)
(*                                                                         *)
(* A bstring is the index of its record in heap, 0 is the null bstring.    *)
(* The record holds the text, whether the structure is valid (slen >= 0    *)
(* and data present) and how often bdestroy has released it.  The          *)
(* application has one wc_secret_t (slot) and one bstring variable (hnd).  *)
(* An argument of type bstring* is the name of the variable pointed to:    *)
(* ARG_HND for &hnd, ARG_SELF for &slot.serial, ARG_NULL for NULL.         *)
(***************************************************************************)
MaxBufs == 3

NULL_PTR == 0
BSTR_OK == 0
ARG_NULL == "null"
ARG_HND == "hnd"
ARG_SELF == "self"

TEXT_ABC == <<97, 98, 99>>
\* "1:secret:abc"
TEXT_SECRET == <<49, CH_COLON>> \o SECRET_TAG \o <<CH_COLON>> \o TEXT_ABC
SLOT_AMOUNT == AmountOf(1)

\* malloc: the next record of the heap; it fails when the application is
\* out of memory
Alloc(h, text) == Append(h, [text |-> text, valid |-> TRUE, released |-> 0])
NewPtr(h) == Len(h) + 1

\* b == NULL || b->slen < 0 || b->data == NULL
BstrInvalid(h, b) == b = NULL_PTR \/ ~h[b].valid

\* bdestroy(b): refuses a null or invalid bstring, releases any other
bdestroy(h, b) ==
    IF BstrInvalid(h, b) THEN [rc |-> BSTR_ERR, heap |-> h]
    ELSE [rc |-> BSTR_OK, heap |-> [h EXCEPT ![b].released = @ + 1]]

\* the bstring a bstring* points to, and the assignment through it
Deref(st, arg) == IF arg = ARG_SELF THEN st.slot.serial ELSE st.hnd
Assign(st, arg, b) ==
    IF arg = ARG_SELF THEN [st EXCEPT !.slot.serial = b] ELSE [st EXCEPT !.hnd = b]

SlotResult(err, st) == [err |-> err, st |-> st]

\* mutant: the pointer is kept after the release
wc_secret_destroy_KeepsPointer(st) ==
    LET r == bdestroy(st.heap, st.slot.serial)
    IN  IF r.rc # BSTR_OK THEN SlotResult(WC_ERROR_INVALID_ARGUMENT, st)
        ELSE SlotResult(WC_SUCCESS,
                        [st EXCEPT !.heap = r.heap,
                                   !.slot = [amount |-> WC_ZERO, serial |-> st.slot.serial]])

wc_secret_destroy(st) ==
    LET r == bdestroy(st.heap, st.slot.serial)
    IN  IF r.rc # BSTR_OK THEN SlotResult(WC_ERROR_INVALID_ARGUMENT, st)
        ELSE SlotResult(WC_SUCCESS,
                        [st EXCEPT !.heap = r.heap,
                                   !.slot = [amount |-> WC_ZERO, serial |-> NULL_PTR]])

\* wc_secret_destroy(secret); secret->amount = amount; secret->serial = b
Install(st, amt0, b) ==
    [wc_secret_destroy(st).st EXCEPT !.slot = [amount |-> amt0, serial |-> b]]

wc_secret_new(st, oom) ==
    IF oom THEN SlotResult(WC_ERROR_OUT_OF_MEMORY, st)
    ELSE SlotResult(WC_SUCCESS,
                    Install([st EXCEPT !.heap = Alloc(st.heap, <<>>)], WC_ZERO, NewPtr(st.heap)))

\* serial is NULLSTR for a null pointer
wc_secret_from_cstring(st, amt0, serial, oom) ==
    IF serial = NULLSTR THEN SlotResult(WC_ERROR_INVALID_ARGUMENT, st)
    ELSE IF oom THEN SlotResult(WC_ERROR_OUT_OF_MEMORY, st)
    ELSE SlotResult(WC_SUCCESS,
                    Install([st EXCEPT !.heap = Alloc(st.heap, serial)], amt0, NewPtr(st.heap)))

wc_secret_from_bstring(st, amt0, arg) ==
    IF arg = ARG_NULL THEN SlotResult(WC_ERROR_INVALID_ARGUMENT, st)
    ELSE IF BstrInvalid(st.heap, Deref(st, arg)) THEN SlotResult(WC_ERROR_INVALID_ARGUMENT, st)
    ELSE
    LET destroyed == wc_secret_destroy(st).st
        \* secret->amount = amount; secret->serial = *serial
        taken == [destroyed EXCEPT !.slot = [amount |-> amt0,
                                             serial |-> Deref(destroyed, arg)]]
    IN  \* *serial = NULL
        SlotResult(WC_SUCCESS, Assign(taken, arg, NULL_PTR))

wc_secret_from_bstring_copy(st, amt0, b, oom) ==
    IF BstrInvalid(st.heap, b) THEN SlotResult(WC_ERROR_INVALID_ARGUMENT, st)
    ELSE IF oom THEN SlotResult(WC_ERROR_OUT_OF_MEMORY, st)
    ELSE SlotResult(WC_SUCCESS,
                    Install([st EXCEPT !.heap = Alloc(st.heap, st.heap[b].text)],
                            amt0, NewPtr(st.heap)))

\* wc_secret_parse(secret, NULL, bstr) on the slot: the fields are read as
\* wc_secret_parse reads them; bmidstr allocates the serial
SlotParseOf(st, b, oom) ==
    LET text == IF BstrInvalid(st.heap, b) THEN NULLSTR ELSE st.heap[b].text
        r == wc_secret_parse(SECRET_NONE, NC_UNSET, text)
    IN  IF r.err # WC_SUCCESS THEN SlotResult(r.err, st)
        ELSE IF oom THEN SlotResult(WC_ERROR_OUT_OF_MEMORY, st)
        ELSE SlotResult(WC_SUCCESS,
                        Install([st EXCEPT !.heap = Alloc(st.heap, r.secret.serial)],
                                r.secret.amount, NewPtr(st.heap)))

(***************************************************************************)
(* Slot scenario: any sequence of the calls, and the application creating  *)
(* and destroying strings of its own                                       *)
(***************************************************************************)
SlotState == [slot |-> slot, heap |-> heap, hnd |-> hnd]

\* a zero-filled slot, and one whose amount was set before any serial
SlotInitSamples ==
    {[amount |-> WC_ZERO, serial |-> NULL_PTR], [amount |-> AmountOf(3), serial |-> NULL_PTR]}

InitSlotIdle ==
    /\ slot = [amount |-> WC_ZERO, serial |-> NULL_PTR]
    /\ heap = <<>>
    /\ hnd = NULL_PTR
    /\ sop = "none"
    /\ sarg = ARG_NULL
    /\ serr = ERR_UNSET
    /\ sprev = SlotState

InitSlotStart ==
    /\ slot \in SlotInitSamples
    /\ heap = <<>>
    /\ hnd = NULL_PTR
    /\ sop = "none"
    /\ sarg = ARG_NULL
    /\ serr = ERR_UNSET
    /\ sprev = SlotState

SlotReturn(arg, r) ==
    /\ Len(r.st.heap) <= MaxBufs
    /\ slot' = r.st.slot
    /\ heap' = r.st.heap
    /\ hnd' = r.st.hnd
    /\ sarg' = arg
    /\ serr' = r.err
    /\ sprev' = SlotState
    /\ UNCHANGED notSlotVars

SlotNew ==
    /\ sop' = "new"
    /\ \E oom \in BOOLEAN : SlotReturn(ARG_NULL, wc_secret_new(SlotState, oom))

SlotFromCstring ==
    /\ sop' = "cstring"
    /\ \E serial \in {NULLSTR, TEXT_ABC}, oom \in BOOLEAN :
        SlotReturn(ARG_NULL, wc_secret_from_cstring(SlotState, SLOT_AMOUNT, serial, oom))

SlotFromBstring ==
    /\ sop' = "move"
    /\ \E arg \in {ARG_NULL, ARG_HND, ARG_SELF} :
        SlotReturn(arg, wc_secret_from_bstring(SlotState, SLOT_AMOUNT, arg))

\* the bstring argument: NULL, hnd or slot.serial
SlotFromBstringCopy ==
    /\ sop' = "copy"
    /\ \E arg \in {ARG_NULL, ARG_HND, ARG_SELF}, oom \in BOOLEAN :
        SlotReturn(arg,
                   wc_secret_from_bstring_copy(SlotState, SLOT_AMOUNT,
                        IF arg = ARG_NULL THEN NULL_PTR ELSE Deref(SlotState, arg), oom))

SlotParse ==
    /\ sop' = "parse"
    /\ \E arg \in {ARG_NULL, ARG_HND, ARG_SELF}, oom \in BOOLEAN :
        SlotReturn(arg,
                   SlotParseOf(SlotState, IF arg = ARG_NULL THEN NULL_PTR ELSE Deref(SlotState, arg), oom))

SlotDestroy ==
    /\ sop' = "destroy"
    /\ SlotReturn(ARG_NULL, wc_secret_destroy(SlotState))

\* bstr = bfromcstr(...), as the tests do; also a string whose structure
\* the application has damaged
CallerAlloc ==
    /\ hnd = NULL_PTR
    /\ sop' = "alloc"
    /\ \E text \in {TEXT_ABC, TEXT_SECRET}, valid \in BOOLEAN :
        SlotReturn(ARG_HND,
                   SlotResult(WC_SUCCESS,
                              [SlotState EXCEPT !.heap = Append(heap, [text |-> text, valid |-> valid,
                                                                       released |-> 0]),
                                                !.hnd = NewPtr(heap)]))

\* bdestroy(bstr); bstr = NULL
CallerFree ==
    /\ hnd # NULL_PTR
    /\ heap[hnd].valid
    /\ sop' = "free"
    /\ SlotReturn(ARG_HND,
                  SlotResult(WC_SUCCESS, [SlotState EXCEPT !.heap = bdestroy(heap, hnd).heap,
                                                           !.hnd = NULL_PTR]))

NextSlot ==
    \/ SlotNew
    \/ SlotFromCstring
    \/ SlotFromBstring
    \/ SlotFromBstringCopy
    \/ SlotParse
    \/ SlotDestroy
    \/ CallerAlloc
    \/ CallerFree

(***************************************************************************)
(* wc_storage_enumerate_terms on the memory of the caller's array          *)
(*                                                                         *)
(* The array is a sequence of cells of the size of a pointer.  A           *)
(* wc_db_terms_t takes dsz cells: the time, the text pointer, padding.  A  *)
(* wc_terms_t takes rsz cells: tm cells of struct tm, the text pointer,    *)
(* padding.  A cell records what was stored in it: the time or the text    *)
(* pointer of database record rec, part k of the struct tm converted from  *)
(* the time of record rec, the text pointer of output record rec, or what  *)
(* a failed gmtime_r left behind.  A text pointer is the number of its     *)
(* buffer.                                                                 *)
(***************************************************************************)
MaxRecords == 4

PTR_CELLS == 1          \* sizeof(bstring), in cells

K_FREE == "free"
K_DBWHEN == "dbwhen"
K_DBTEXT == "dbtext"
K_TM == "tm"
K_TEXT == "text"
K_JUNK == "junk"

Cell(kind, rec, v, part) == [kind |-> kind, rec |-> rec, v |-> v, part |-> part]
FREE_CELL == Cell(K_FREE, -1, 0, 0)

sizeof_wc_db_terms_t(L) == L.dsz
sizeof_wc_terms_t(L) == L.rsz

\* offsets (from 1) of the fields of dbterms[i] and terms[i]
DbWhenAt(L, i) == L.dsz * i + 1
DbTextAt(L, i) == L.dsz * i + 2
TmAt(L, i) == L.rsz * i + 1
TextAt(L, i) == L.rsz * i + L.tm + 1

\* the all_terms callback of the test: record i gets its time and a newly
\* allocated text, buffer i + 1
AllTermsWrite(L, whens) ==
    SubSeq([c \in 1..(L.rsz * Len(whens)) |->
                IF c > L.dsz * Len(whens) THEN FREE_CELL
                ELSE LET i == (c - 1) \div L.dsz
                         f == (c - 1) % L.dsz
                     IN  IF f = 0 THEN Cell(K_DBWHEN, i, whens[i + 1], 0)
                         ELSE IF f = 1 THEN Cell(K_DBTEXT, i, i + 1, 0)
                         ELSE FREE_CELL],
           1, L.rsz * Len(whens))

\* the cell holds a field of a database record that iteration i has still
\* to read: a record below i, or the time of record i
Unread(cell, i, timeread) ==
    /\ cell.kind \in {K_DBWHEN, K_DBTEXT}
    /\ \/ cell.rec < i
       \/ cell.rec = i /\ cell.kind = K_DBWHEN /\ ~timeread

\* terms[i].text = dbterms[i].text
CopyText(st, L, i) ==
    LET src == st.mem[DbTextAt(L, i)]
    IN  [st EXCEPT !.mem[TextAt(L, i)] =
                        IF src.kind = K_DBTEXT THEN Cell(K_TEXT, src.rec, src.v, 0) ELSE src,
                   !.clobbered = @ \/ Unread(st.mem[TextAt(L, i)], i, FALSE)]

\* gmtime_r(&dbterms[i].when, &terms[i].when): the time is read, then the
\* struct tm is written; a failed conversion leaves it untouched, or
\* partly written when junk is set
ConvertTime(st, L, i, junk) ==
    LET src == st.mem[DbWhenAt(L, i)]
        g == gmtime_r(src.v)
        hit == \E k \in 0..(L.tm - 1) : Unread(st.mem[TmAt(L, i) + k], i, TRUE)
        written == SubSeq([k \in 1..L.tm |->
                               IF ~g.ok \/ src.kind # K_DBWHEN THEN Cell(K_JUNK, i, 0, k)
                               ELSE Cell(K_TM, src.rec, g.tm.utc, k)], 1, L.tm)
    IN  [ok |-> g.ok,
         st |-> IF ~g.ok /\ ~junk THEN st
                ELSE [st EXCEPT !.mem = WriteAt(st.mem, TmAt(L, i) - 1, written),
                                !.clobbered = @ \/ hit]]

\* bdestroy(p) of the pointer read from a cell
ReleaseCell(st, cell) ==
    IF cell.kind \in {K_DBTEXT, K_TEXT} THEN [st EXCEPT !.released[cell.v] = @ + 1]
    ELSE [st EXCEPT !.wild = @ + 1]

\* mutant: every record is released through its converted form
CleanupCell_Converted(st, L, i, j) == st.mem[TextAt(L, j)]

\* "for (j = 0; j < i; ++j) bdestroy(dbterms[j].text);
\*  for (; j < *count; ++j) bdestroy(terms[j].text);": the cell read for j
CleanupCell(st, L, i, j) ==
    IF j < i THEN st.mem[DbTextAt(L, j)] ELSE st.mem[TextAt(L, j)]

RECURSIVE Cleanup(_, _, _, _, _)
Cleanup(st, L, i, j, count) ==
    IF j >= count THEN st
    ELSE Cleanup(ReleaseCell(st, CleanupCell(st, L, i, j)), L, i, j + 1, count)

\* mutant: the records are converted from index 0 up
LoopIndex_Ascending(count, k) == k - 1

\* the index of the k-th iteration of "for (i = *count; i > 0;) { --i; ..."
LoopIndex(count, k) == count - k

\* the conversion loop from its k-th iteration on
RECURSIVE ConvertLoop(_, _, _, _, _)
ConvertLoop(st, L, k, count, junk) ==
    IF k > count THEN [ret |-> WC_SUCCESS, st |-> st]
    ELSE LET i == LoopIndex(count, k)
             conv == ConvertTime(CopyText(st, L, i), L, i, junk)
         IN  IF ~conv.ok
             THEN [ret |-> WC_ERROR_DB_CORRUPT, st |-> Cleanup(conv.st, L, i, 0, count)]
             ELSE ConvertLoop(conv.st, L, k + 1, count, junk)

\* wc_storage_enumerate_terms(w, terms, &count) on an open storage with an
\* all_terms callback; lo is what the callback answers: ret and the times
\* of the records it wrote.  hasbuf: terms is not null.
EnumerateInPlace(L, hasbuf, lo, junk) ==
    LET count == Len(lo.whens)
        st0 == [mem |-> IF hasbuf THEN AllTermsWrite(L, lo.whens) ELSE <<>>,
                released |-> SubSeq([b \in 1..MaxRecords + 1 |-> 0], 1, count),
                wild |-> 0,
                clobbered |-> FALSE]
    IN  IF lo.ret = WC_SUCCESS /\ ~hasbuf
        THEN [ret |-> WC_ERROR_INSUFFICIENT_CAPACITY, st |-> st0]
        ELSE IF lo.ret # WC_SUCCESS THEN [ret |-> lo.ret, st |-> st0]
        ELSE ConvertLoop(st0, L, 1, count, junk)

(***************************************************************************)
(* Inputs of the conversion scenario                                       *)
(***************************************************************************)
\* LP64 with a 56 byte struct tm; the smallest wc_terms_t for which
\* sizeof(wc_db_terms_t) + sizeof(bstring) <= sizeof(wc_terms_t); ILP32
\* with a 44 byte struct tm; a padded wc_db_terms_t
LayoutSamples ==
    {[dsz |-> 2, tm |-> 7, rsz |-> 8], [dsz |-> 2, tm |-> 2, rsz |-> 3],
     [dsz |-> 2, tm |-> 11, rsz |-> 12], [dsz |-> 3, tm |-> 3, rsz |-> 4]}

\* the times all_terms stores: record i accepted at 4000 + i, or at a time
\* gmtime_r cannot convert
WhenSamples(count) ==
    {[i \in 1..count |-> IF i \in far THEN TIME_T_FAR ELSE 4000 + i] : far \in SUBSET (1..count)}

AllTermsSamples ==
    UNION {{[ret |-> WC_SUCCESS, whens |-> w] : w \in WhenSamples(count)} : count \in 0..MaxRecords}
        \cup {[ret |-> WC_ERROR_DB_CORRUPT, whens |-> <<>>]}

InplaceArgSamples ==
    {[layout |-> L, hasbuf |-> hb, lo |-> lo, junk |-> junk] :
        L \in LayoutSamples, hb \in BOOLEAN, lo \in AllTermsSamples, junk \in BOOLEAN}

ERES_NONE == [ret |-> ERR_UNSET, released |-> <<>>, wild |-> 0, clobbered |-> FALSE]

InitInplaceIdle ==
    /\ epc = "idle"
    /\ eargs = [layout |-> [dsz |-> 2, tm |-> 7, rsz |-> 8], hasbuf |-> FALSE,
                lo |-> [ret |-> WC_SUCCESS, whens |-> <<>>], junk |-> FALSE]
    /\ emem = <<>>
    /\ eres = ERES_NONE

InitInplaceStart ==
    /\ epc = "start"
    /\ eargs \in InplaceArgSamples
    /\ sizeof_wc_db_terms_t(eargs.layout) + PTR_CELLS <= sizeof_wc_terms_t(eargs.layout)
    /\ emem = <<>>
    /\ eres = ERES_NONE

\* wc_storage_enumerate_terms(w, vec.data(), &count)
EnumerateTermsInPlace ==
    /\ epc = "start"
    /\ LET r == EnumerateInPlace(eargs.layout, eargs.hasbuf, eargs.lo, eargs.junk)
       IN  /\ emem' = r.st.mem
           /\ eres' = [ret |-> r.ret, released |-> r.st.released, wild |-> r.st.wild,
                       clobbered |-> r.st.clobbered]
    /\ epc' = "done"
    /\ UNCHANGED <<eargs, notInplaceVars>>

NextInplace == EnumerateTermsInPlace

(***************************************************************************)
(* Specifications: one per group of scenarios, the other groups idle       *)
(***************************************************************************)
InitAmount == InitInplaceIdle /\ InitSlotIdle /\ InitMiningIdle /\ InitMidstateIdle /\ InitStorageIdle /\ InitAmountStart /\ InitClaimIdle /\ InitDeriveIdle /\ InitWalletIdle
SpecAmount == InitAmount /\ [][NextAmount]_vars

InitClaim == InitInplaceIdle /\ InitSlotIdle /\ InitMiningIdle /\ InitMidstateIdle /\ InitStorageIdle /\ InitClaimStart /\ InitAmountIdle /\ InitDeriveIdle /\ InitWalletIdle
SpecClaim == InitClaim /\ [][NextClaim]_vars

InitDerive == InitInplaceIdle /\ InitSlotIdle /\ InitMiningIdle /\ InitMidstateIdle /\ InitStorageIdle /\ InitDeriveStart /\ InitAmountIdle /\ InitClaimIdle /\ InitWalletIdle
SpecDerive == InitDerive /\ [][NextDerive]_vars

InitWallet == InitInplaceIdle /\ InitSlotIdle /\ InitMiningIdle /\ InitMidstateIdle /\ InitStorageIdle /\ InitWalletStart /\ InitAmountIdle /\ InitClaimIdle /\ InitDeriveIdle
SpecWallet == InitWallet /\ [][NextWallet]_vars

InitStorage ==
    InitInplaceIdle /\ InitSlotIdle /\ InitMiningIdle /\ InitMidstateIdle /\ InitStorageStart /\ InitAmountIdle /\ InitClaimIdle /\ InitDeriveIdle /\ InitWalletIdle
SpecStorage == InitStorage /\ [][NextStorage]_vars

InitMidstate ==
    InitInplaceIdle /\ InitSlotIdle /\ InitMiningIdle /\ InitMidstateStart /\ InitAmountIdle /\ InitClaimIdle /\ InitDeriveIdle /\ InitWalletIdle /\ InitStorageIdle
SpecMidstate == InitMidstate /\ [][NextMidstate]_vars

InitMining ==
    InitInplaceIdle /\ InitSlotIdle /\ InitMiningStart /\ InitAmountIdle /\ InitClaimIdle /\ InitDeriveIdle /\ InitWalletIdle /\ InitStorageIdle /\ InitMidstateIdle
SpecMining == InitMining /\ [][NextMining]_vars

InitSlot ==
    InitInplaceIdle /\ InitSlotStart /\ InitAmountIdle /\ InitClaimIdle /\ InitDeriveIdle /\ InitWalletIdle /\ InitStorageIdle /\ InitMidstateIdle /\ InitMiningIdle
SpecSlot == InitSlot /\ [][NextSlot]_vars

InitInplace ==
    InitInplaceStart /\ InitAmountIdle /\ InitClaimIdle /\ InitDeriveIdle /\ InitWalletIdle /\ InitStorageIdle /\ InitMidstateIdle /\ InitMiningIdle /\ InitSlotIdle
SpecInplace == InitInplace /\ [][NextInplace]_vars
(***************************************************************************)
(* Claims about the amount codec                                           *)
(***************************************************************************)

\* C2: formatting an amount and parsing the result gives the amount back,
\* with success and noncanonical = 0, for every amount sampled over the
\* signed 64-bit range; the most negative amount is formatted as
\* "-92233720368.54775808".
C2_RoundTrip ==
    /\ (apc \in {"rt_formatted", "rt_parsed"} /\ amount = INT64_MIN) => bstr = INT64_MIN_STR
    /\ apc = "rt_parsed" =>
          /\ aerr = WC_SUCCESS
          /\ amt2 = amount
          /\ noncanonical2 = 0

C2_Witness ==
    /\ apc = "rt_parsed"
    /\ amount = INT64_MIN
    /\ amt2 = INT64_MIN
    /\ aerr = WC_SUCCESS

\* C3: for a string that wc_from_cstring parses, noncanonical is 0 exactly
\* when formatting the parsed amount gives the string back.
C3_CanonicalIffFormatEqual ==
    apc = "cs_formatted" => ((noncanonical2 = 0) <=> (bstr = str))

\* negative zero is parsed, flagged, and formats differently
C3_Witness ==
    /\ apc = "cs_formatted"
    /\ str = <<CH_MINUS, CH_0>>
    /\ noncanonical2 = 1
    /\ bstr = <<CH_0>>

(***************************************************************************)
(* Claims about claim codes                                                *)
(***************************************************************************)

\* C4: for a secret with amount > 0 and a non-empty serial without zero
\* bytes (':' allowed), parsing the string wc_secret_to_string wrote
\* succeeds and gives the same amount and the same serial bytes, with
\* noncanonical = 0.
C4_SecretRoundTrip ==
    (/\ cpc = "sec_parsed"
     /\ wc_secret_is_valid(secret) = WC_SUCCESS
     /\ Len(secret.serial) > 0)
    => /\ cerr = WC_SUCCESS
       /\ secret2.amount = secret.amount
       /\ secret2.serial = secret.serial
       /\ cnoncanonical = 0

\* a serial that holds ':' characters comes back whole
C4_Witness ==
    /\ cpc = "sec_parsed"
    /\ secret.amount = AmountOf(1)
    /\ secret.serial = <<CH_COLON, CH_a, CH_COLON>>
    /\ secret2 = secret
    /\ cnoncanonical = 0

\* C5: for a public value with amount > 0 and any 32-byte hash, parsing the
\* string wc_public_to_string wrote succeeds and gives the same amount and
\* the same 32 hash bytes, with noncanonical = 0; the payload after the
\* second ':' is exactly 64 lowercase hex characters.
C5_PublicRoundTrip ==
    /\ (cpc \in {"pub_string", "pub_parsed"} /\ wc_public_is_valid(pub) = WC_SUCCESS)
       => /\ Len(cbstr) > HASH_HEX_LEN
          /\ cbstr[Len(cbstr) - HASH_HEX_LEN] = CH_COLON
          /\ \A i \in (Len(cbstr) - HASH_HEX_LEN + 1)..Len(cbstr) :
                \/ cbstr[i] >= CH_0 /\ cbstr[i] <= CH_9
                \/ cbstr[i] >= CH_a /\ cbstr[i] <= CH_f
    /\ (cpc = "pub_parsed" /\ wc_public_is_valid(pub) = WC_SUCCESS)
       => /\ cerr = WC_SUCCESS
          /\ pub2.amount = pub.amount
          /\ pub2.hash = pub.hash
          /\ cnoncanonical = 0

C5_Witness ==
    /\ cpc = "pub_parsed"
    /\ pub.amount = [neg |-> FALSE, mag |-> <<1,2,3,4,5,6,7,8,0,0>>]
    /\ pub.hash = HASH_ABC
    /\ pub2 = pub
    /\ cnoncanonical = 0
    /\ cerr = WC_SUCCESS

(***************************************************************************)
(* Claims about the derivation of serials                                  *)
(***************************************************************************)

\* C6: after wc_derive_serials for count serials, the buffer holds, in
\* ascending depth order, the 64 characters wc_derive_serial gives for
\* start + i, i = 0..count-1; the first batch covers ((count-1) mod 8)+1
\* depths and every later batch eight; each batch hashes blocks that carry
\* the depths start + offset .. in lane order; exactly count*64 bytes are
\* written, and count = 0 writes nothing.
C6_BatchedEqualsSingle ==
    dpc = "loop" =>
        /\ \A i \in 1..Len(buf1) : (buf1[i] # UNWRITTEN) <=> (i <= dargs.count * SERIAL_LEN)
        /\ dargs.count = 0 => (buf1 = BUF1_INIT /\ dbatches = <<>>)
        /\ Len(dbatches) = (dargs.count + LANES - 1) \div LANES
        /\ \A k \in 1..Len(dbatches) :
              /\ dbatches[k].m = (IF k = 1 THEN ((dargs.count - 1) % LANES) + 1 ELSE LANES)
              /\ \A l \in 1..dbatches[k].m :
                    dbatches[k].lanes[l]
                        = BE64(U64Plus(dargs.depth,
                                      (IF k = 1 THEN 0
                                       ELSE ((dargs.count - 1) % LANES) + 1 + LANES * (k - 2))
                                      + l - 1))
        /\ SubSeq(buf1, 1, dn * SERIAL_LEN) = dsingle

C6_Witness ==
    /\ dpc = "loop"
    /\ dargs.count = 17
    /\ dargs.root = HDROOT
    /\ dargs.depth = <<LIMB - 5, LIMB - 1, LIMB - 1, LIMB - 1>>
    /\ dn = 17
    /\ Len(dbatches) = 3
    /\ dbatches[1].m = 1
    /\ dbatches[3].lanes[8] = BE64(U64Of(11))
    /\ dsingle = SubSeq(buf1, 1, 17 * SERIAL_LEN)
    /\ SubSeq(buf1, 1, SERIAL_LEN) # SubSeq(buf1, SERIAL_LEN + 1, 2 * SERIAL_LEN)

(***************************************************************************)
(* Claims about the wallet                                                 *)
(***************************************************************************)

\* C1: a call of wc_wallet_terms_of_service makes its facade calls in the
\* order get_terms, terms_accepted, show_terms, accept_terms, each only
\* when needed: get_terms only when the wallet has no cached text (and
\* after a successful fetch the acceptance cache is 0); terms_accepted only
\* when the cache does not say accepted; show_terms only directly after a
\* successful query that reported not accepted; accept_terms only directly
\* after a successful prompt that set accepted; and every call but the last
\* one made returned success.
C1_StepsInOrderWhenNeeded ==
    wcall.op = "tos" =>
        /\ (wcall.pre.terms = NULL_BSTR /\ wcall.pre.ptr # 0) =>
              (wcall.trace # <<>> /\ wcall.trace[1].f = "get_terms")
        /\ \A i \in 1..Len(wcall.trace) :
              /\ i < Len(wcall.trace) => wcall.trace[i].ret = WC_SUCCESS
              /\ wcall.trace[i].f = "get_terms" =>
                    /\ i = 1
                    /\ wcall.pre.terms = NULL_BSTR
                    /\ (wcall.trace[i].ret = WC_SUCCESS /\ appWallet.terms # NULL_BSTR)
                          => wcall.trace[i].acc = 0
              /\ wcall.trace[i].f = "terms_accepted" =>
                    /\ (IF i = 1 THEN wcall.pre.accepted ELSE wcall.trace[i - 1].acc) = 0
                    /\ IF i = 1 THEN wcall.pre.terms # NULL_BSTR
                       ELSE i = 2 /\ wcall.trace[1].f = "get_terms"
              /\ wcall.trace[i].f = "show_terms" =>
                    /\ i > 1
                    /\ wcall.trace[i - 1].f = "terms_accepted"
                    /\ wcall.trace[i - 1].ret = WC_SUCCESS
                    /\ wcall.trace[i - 1].acc = 0
              /\ wcall.trace[i].f = "accept_terms" =>
                    /\ i > 1
                    /\ wcall.trace[i - 1].f = "show_terms"
                    /\ wcall.trace[i - 1].ret = WC_SUCCESS
                    /\ wcall.trace[i - 1].acc # 0

C1_Witness ==
    /\ wcall.op = "tos"
    /\ wcall.pre.terms = NULL_BSTR
    /\ Len(wcall.trace) = 4
    /\ \A i \in 1..4 : wcall.trace[i].cb /\ wcall.trace[i].ret = WC_SUCCESS
    /\ wcall.trace[4].f = "accept_terms"
    /\ host.db[appWallet.terms] # 0

\* C7: a call in which the user interface reports a rejection returns
\* success with accepted = 0 and makes no accept_terms call; and while the
\* user's last answer on the wallet is a rejection, every call that
\* returns success has shown the prompt.
C7_RejectionNotCached ==
    wcall.op = "tos" =>
        /\ (\E i \in 1..Len(wcall.trace) :
                /\ wcall.trace[i].f = "show_terms"
                /\ wcall.trace[i].ret = WC_SUCCESS
                /\ wcall.trace[i].acc = 0)
              => /\ wcall.ret = WC_SUCCESS
                 /\ "accepted" \in wcall.outs => wcall.out.accepted = 0
                 /\ \A j \in 1..Len(wcall.trace) : wcall.trace[j].f # "accept_terms"
        /\ (wcall.rejected /\ wcall.ret = WC_SUCCESS)
              => \E i \in 1..Len(wcall.trace) : wcall.trace[i].f = "show_terms"

C7_Witness ==
    /\ wcall.op = "tos"
    /\ wcall.rejected
    /\ wcall.ret = WC_SUCCESS
    /\ wcall.out.accepted = 0
    /\ Len(wcall.trace) = 2
    /\ wcall.trace[2].f = "show_terms"
    /\ wcall.trace[2].cb

\* C8: a failure of get_terms, terms_accepted or show_terms ends the call
\* at once with that error code and the caller's outputs unwritten; a
\* failure of accept_terms is the only failure after which the call
\* returns success, and then with accepted = 1.
C8_OnlyAcceptFailureSwallowed ==
    wcall.op = "tos" =>
        \A i \in 1..Len(wcall.trace) :
            /\ (wcall.trace[i].f # "accept_terms" /\ wcall.trace[i].ret # WC_SUCCESS)
                  => /\ i = Len(wcall.trace)
                     /\ wcall.ret = wcall.trace[i].ret
                     /\ wcall.out = OUT_INIT
            /\ (wcall.trace[i].f = "accept_terms" /\ wcall.trace[i].ret # WC_SUCCESS)
                  => /\ wcall.ret = WC_SUCCESS
                     /\ appWallet.accepted = 1
                     /\ "accepted" \in wcall.outs => wcall.out.accepted = 1

C8_Witness ==
    /\ wcall.op = "tos"
    /\ Len(wcall.trace) = 4
    /\ wcall.trace[4].f = "accept_terms"
    /\ wcall.trace[4].cb
    /\ wcall.trace[4].ret = WC_ERROR_DB_CLOSED
    /\ wcall.ret = WC_SUCCESS
    /\ wcall.out.accepted = 1
    /\ host.db[appWallet.terms] = 0

\* C9 as stated: the call that follows one in which the acceptance was
\* lost (accepted in the prompt, accept_terms failed) and that returns
\* success shows the prompt.
C9_NextCallPrompts ==
    (wcall.op = "tos" /\ wcall.swallowed # "no" /\ wcall.ret = WC_SUCCESS)
        => \E i \in 1..Len(wcall.trace) : wcall.trace[i].f = "show_terms"

\* C9: after a call in which the acceptance was lost, the acceptance stays
\* cached in the wallet: the next call on the same wallet makes no fetch,
\* query or prompt and returns success with accepted = 1.  The prompt
\* comes again in a wallet configured afterwards: when its call fetches
\* the same text and its query succeeds, the query reports not accepted
\* and the prompt is shown.
C9_AcceptanceStaysCached ==
    wcall.op = "tos" =>
        /\ wcall.swallowed = "same" =>
              /\ wcall.trace = <<>>
              /\ wcall.ret = WC_SUCCESS
              /\ appWallet.accepted = 1
              /\ "accepted" \in wcall.outs => wcall.out.accepted = 1
        /\ (/\ wcall.swallowed = "other"
            /\ appWallet.terms = wcall.lost
            /\ Len(wcall.trace) >= 2
            /\ wcall.trace[2].ret = WC_SUCCESS)
              => /\ wcall.trace[1].f = "get_terms"
                 /\ wcall.trace[2].f = "terms_accepted"
                 /\ wcall.trace[2].acc = 0
                 /\ Len(wcall.trace) >= 3
                 /\ wcall.trace[3].f = "show_terms"

C9_Witness ==
    /\ wcall.op = "tos"
    /\ wcall.swallowed = "same"
    /\ wcall.lost = appWallet.terms
    /\ wcall.trace = <<>>
    /\ wcall.out.accepted = 1
    /\ host.db[appWallet.terms] = 0

\* C10: wc_wallet_release enters wc_ui_shutdown, wc_server_disconnect and
\* wc_storage_close, in that order and each once, and returns the first
\* error among them (success when there is none); each of the shutdown,
\* disconnect, db_close and log_close callbacks the host provides is called
\* exactly once, with the handle its open callback returned, and one the
\* host does not provide is not called.
C10_ReleaseInReverseOrder ==
    wcall.op = "release" =>
        /\ SelectSeq(wcall.events,
                     LAMBDA x : x.ev \in {"wc_ui_shutdown", "wc_server_disconnect",
                                          "wc_storage_close"})
              = <<Event("wc_ui_shutdown", wcall.pre.ui.ptr),
                  Event("wc_server_disconnect", wcall.pre.server.ptr),
                  Event("wc_storage_close", wcall.pre.storage.ptr)>>
        /\ wcall.ret = WC_SUCCESS
        /\ \A c \in {"shutdown", "disconnect", "db_close", "log_close"} :
              Cardinality({i \in 1..Len(wcall.events) : wcall.events[i].ev = c})
                  = (IF c \in host.cbs THEN 1 ELSE 0)
        /\ \A i \in 1..Len(wcall.events) :
              /\ wcall.events[i].ev = "shutdown" => wcall.events[i].h = wghost.hwnd
              /\ wcall.events[i].ev = "disconnect" => wcall.events[i].h = wghost.conn
              /\ wcall.events[i].ev = "db_close" => wcall.events[i].h = wghost.db
              /\ wcall.events[i].ev = "log_close" => wcall.events[i].h = wghost.log

C10_Witness ==
    /\ wcall.op = "release"
    /\ host.gen = 2
    /\ wcall.events =
          <<Event("wc_ui_shutdown", 1), Event("shutdown", Handle(1, 4)),
            Event("wc_server_disconnect", 1), Event("disconnect", Handle(1, 3)),
            Event("wc_storage_close", 1), Event("db_close", Handle(1, 2)),
            Event("log_close", Handle(1, 1))>>


(***************************************************************************)
(* Terms storage                                                           *)
(***************************************************************************)
\* the terms_accepted / any_terms callback of the host was reached and
\* answered from the map
AnsweredFaithfully == scall.cb /\ scall.ret \notin {WC_ERROR_DB_CORRUPT}

\* C11: with callbacks that store and return the acceptance times
\* faithfully, wc_storage_are_terms_accepted reports accepted = 1 for a
\* text that wc_storage_accept_terms stored with success (for any permitted
\* time, the epoch itself included) and 0 for a text never accepted, and
\* wc_storage_have_accepted_terms reports true once a text was accepted.
C11_AcceptedIsReported ==
    /\ (scall.op = "are_terms_accepted" /\ AnsweredFaithfully /\ "accepted" \in scall.ptrs)
           => /\ scall.ret = WC_SUCCESS
              /\ scall.accepted = IF scall.text \in shost.keys THEN 1 ELSE 0
    /\ (scall.op = "have_accepted_terms" /\ AnsweredFaithfully)
           => /\ scall.ret = WC_SUCCESS
              /\ (scall.accepted # 0) <=> (shost.keys # {})

\* a text accepted at a time after the epoch is reported as accepted, while
\* the other text is not
C11_Witness ==
    /\ scall.op = "are_terms_accepted" /\ scall.ret = WC_SUCCESS
    /\ scall.text \in shost.keys /\ shost.keys # TermsTexts
    /\ shost.when[scall.text] > 0
    /\ scall.accepted = 1

\* C12: the time wc_storage_enumerate_terms reports for a record denotes
\* stored seconds + WC_TIME_EPOCH, the instant that
\* wc_storage_are_terms_accepted reports for the same text.
C12_EnumerateAddsEpoch ==
    /\ (scall.op = "enumerate_terms" /\ scall.ret = WC_SUCCESS)
           => \A k \in 1..Len(scall.terms) :
                 scall.terms[k].when.utc = shost.when[scall.terms[k].text] + WC_TIME_EPOCH
    /\ (scall.op = "are_terms_accepted" /\ scall.ret = WC_SUCCESS
            /\ "when" \in scall.ptrs /\ scall.when.set)
           => scall.when.utc = shost.when[scall.text] + WC_TIME_EPOCH

\* a record is enumerated; asked directly, its text gets the epoch added
C12_Witness ==
    \/ /\ scall.op = "enumerate_terms" /\ scall.ret = WC_SUCCESS
       /\ Len(scall.terms) = 2
    \/ /\ scall.op = "are_terms_accepted" /\ scall.ret = WC_SUCCESS
       /\ scall.when.set /\ scall.when.utc = shost.when[scall.text] + WC_TIME_EPOCH


(***************************************************************************)
(* Opening the facades                                                     *)
(***************************************************************************)
\* the call was given an output pointer and a table with the callbacks in req
OpenArgsGiven(req) ==
    wcall.hasout /\ wcall.callbacks # NULL_CALLBACKS /\ req \subseteq wcall.callbacks

\* every handle a callback of the call opened was closed again by the call,
\* unless the host provides no callback for closing it
NoHandleLeftOpen(open, close) ==
    \A i \in 1..Len(wcall.events) :
       (wcall.events[i].ev = open /\ wcall.events[i].h # 0 /\ close \in wcall.callbacks)
           => \E j \in (i + 1)..Len(wcall.events) :
                 wcall.events[j] = Event(close, wcall.events[i].h)

\* C13: wc_storage_open calls log_open before db_open; without an output
\* pointer, a table or one of the two open callbacks it returns
\* invalid-argument and calls nothing; a null log handle gives
\* log-open-failed without db_open; a null database handle gives
\* db-open-failed after log_close (when provided) on the log just opened;
\* the caller's handle is written only on success and a failed open leaves
\* no log or database open.
C13_StorageOpenFailures ==
    wcall.op = "storage_open" =>
       /\ ~OpenArgsGiven({"log_open", "db_open"})
             => wcall.ret = WC_ERROR_INVALID_ARGUMENT /\ wcall.events = <<>>
       /\ OpenArgsGiven({"log_open", "db_open"})
             => /\ Len(wcall.events) >= 1 /\ wcall.events[1].ev = "log_open"
                /\ \A i \in 1..Len(wcall.events) : wcall.events[i].ev = "db_open" => i = 2
                /\ wcall.events[1].h = 0
                      => wcall.ret = WC_ERROR_LOG_OPEN_FAILED /\ Len(wcall.events) = 1
                /\ wcall.events[1].h # 0
                      => /\ Len(wcall.events) >= 2 /\ wcall.events[2].ev = "db_open"
                         /\ wcall.events[2].h = 0
                               => /\ wcall.ret = WC_ERROR_DB_OPEN_FAILED
                                  /\ wcall.events =
                                        SubSeq(wcall.events, 1, 2)
                                        \o (IF "log_close" \in wcall.callbacks
                                            THEN <<Event("log_close", wcall.events[1].h)>>
                                            ELSE <<>>)
                         /\ wcall.events[2].h # 0
                               => wcall.ret = WC_SUCCESS /\ Len(wcall.events) = 2
       /\ wcall.ret # WC_SUCCESS
             => /\ app.storage = NULL_STORAGE
                /\ NoHandleLeftOpen("log_open", "log_close")
                /\ NoHandleLeftOpen("db_open", "db_close")
       /\ wcall.ret = WC_SUCCESS
             => /\ app.storage.log = wcall.events[1].h
                /\ app.storage.db = wcall.events[2].h

\* the database could not be opened and the log just opened was closed
C13_Witness ==
    /\ wcall.op = "storage_open" /\ wcall.ret = WC_ERROR_DB_OPEN_FAILED
    /\ Len(wcall.events) = 3 /\ wcall.events[3] = Event("log_close", wcall.events[1].h)
    /\ app.storage = NULL_STORAGE

\* C14: wc_server_connect and wc_ui_startup return invalid-argument and
\* call nothing when the output pointer, the table or the required callback
\* is missing, return connect-failed / startup-failed when the callback
\* returns a null handle, and leave the caller's handle alone whenever they
\* fail.
C14_ConnectStartupFailures ==
    /\ wcall.op = "server_connect" =>
          /\ ~OpenArgsGiven({"connect"})
                => wcall.ret = WC_ERROR_INVALID_ARGUMENT /\ wcall.events = <<>>
          /\ OpenArgsGiven({"connect"})
                => /\ Len(wcall.events) = 1 /\ wcall.events[1].ev = "connect"
                   /\ wcall.ret = IF wcall.events[1].h = 0 THEN WC_ERROR_CONNECT_FAILED
                                  ELSE WC_SUCCESS
          /\ wcall.ret # WC_SUCCESS => app.server = NULL_SERVER
    /\ wcall.op = "ui_startup" =>
          /\ ~OpenArgsGiven({"startup"})
                => wcall.ret = WC_ERROR_INVALID_ARGUMENT /\ wcall.events = <<>>
          /\ OpenArgsGiven({"startup"})
                => /\ Len(wcall.events) = 1 /\ wcall.events[1].ev = "startup"
                   /\ wcall.ret = IF wcall.events[1].h = 0 THEN WC_ERROR_STARTUP_FAILED
                                  ELSE WC_SUCCESS
          /\ wcall.ret # WC_SUCCESS => app.ui = NULL_UI

\* connect returned a null handle: connect-failed, no server object
C14_Witness ==
    /\ wcall.op = "server_connect" /\ wcall.ret = WC_ERROR_CONNECT_FAILED
    /\ wcall.events = <<Event("connect", 0)>>
    /\ app.server = NULL_SERVER


(***************************************************************************)
(* Amount parser: range, rejected inputs, outputs on failure               *)
(***************************************************************************)
\* the string the parser was handed in the state reached
ParsedString == IF apc = "rt_parsed" THEN bstr ELSE CStr(str)
HasParsed == apc \in {"rt_parsed", "cs_parsed"} /\ ParsedString # NULLSTR

\* the text without its sign, its integral digits and what follows them
Unsigned(s) == IF Len(s) > 0 /\ s[1] = CH_MINUS THEN Tail(s) ELSE s
IntegralLen(b) ==
    IF \A i \in 1..Len(b) : isdigit(b[i]) THEN Len(b)
    ELSE (CHOOSE i \in 1..Len(b) : ~isdigit(b[i]) /\ \A k \in 1..(i - 1) : isdigit(b[k])) - 1
IntegralDigits(b) == SubSeq(b, 1, IntegralLen(b))
AfterIntegral(b) == SubSeq(b, IntegralLen(b) + 1, Len(b))

\* optional '-', digits, optionally '.' and digits of which those after the
\* eighth are '0'
WellFormed(s) ==
    LET b == Unsigned(s)
        rest == AfterIntegral(b)
    IN  /\ IntegralLen(b) >= 1
        /\ rest # <<>> => /\ rest[1] = CH_DOT
                          /\ \A i \in 2..Len(rest) : isdigit(rest[i])
                          /\ \A i \in 2..Len(rest) :
                                i > PARSE_FRAC_DIGITS + 1 => rest[i] = CH_0

\* the decimal digits of |value| * 10^8: the integral digits followed by
\* the first eight fractional digits, zeros where the text has none
ScaledDigits(s) ==
    LET b == Unsigned(s)
        rest == AfterIntegral(b)
        frac == [i \in 1..PARSE_FRAC_DIGITS |->
                    IF i + 1 <= Len(rest) THEN rest[i + 1] - CH_0 ELSE 0]
    IN  NatNorm([i \in 1..IntegralLen(b) |-> b[i] - CH_0] \o frac)
IntegralScaled(s) ==
    LET b == Unsigned(s)
    IN  NatNorm([i \in 1..IntegralLen(b) |-> b[i] - CH_0] \o Zeros(PARSE_FRAC_DIGITS))
IsNegative(s) == Len(s) > 0 /\ s[1] = CH_MINUS
OutOfRange(s, mag) ==
    NatGreater(mag, IF IsNegative(s) THEN INT64_MIN_MAG ELSE INT64_MAX)

\* C15: for a well formed text the parser returns overflow exactly when
\* value * 10^8 lies outside [-2^63, 2^63 - 1] and otherwise success with
\* exactly that scaled value (both ends of the range are accepted; the
\* unsigned accumulation never wraps).
C15_OverflowExactlyOutOfRange ==
    (HasParsed /\ WellFormed(ParsedString)) =>
        IF OutOfRange(ParsedString, ScaledDigits(ParsedString))
        THEN aerr = WC_ERROR_OVERFLOW
        ELSE /\ aerr = WC_SUCCESS
             /\ amt2 = [neg |-> IsNegative(ParsedString)
                                /\ ScaledDigits(ParsedString) # <<0>>,
                        mag |-> ScaledDigits(ParsedString)]

\* the text just above 2^64 / 10^8 is refused, the ends of the range parse
C15_Witness ==
    \/ /\ apc = "cs_parsed" /\ aerr = WC_ERROR_OVERFLOW
       /\ str = Dec(<<1,8,4,4,6,7,4,4,0,7,3,7>>) \o <<CH_DOT>> \o Dec(<<0,9,5,5,1,6,1,6>>)
    \/ /\ apc = "cs_parsed" /\ aerr = WC_SUCCESS /\ str = INT64_MIN_STR /\ amt2 = INT64_MIN

\* C16: the parser returns invalid-argument for an empty text, a lone '-',
\* a first character after the optional '-' that is no digit, a character
\* other than a single '.' after the integral digits, a non-digit among the
\* first eight fractional digits and a character other than '0' after the
\* eighth, unless it meets an overflow of the integral part first.
C16_MalformedIsInvalidArgument ==
    (HasParsed /\ ~WellFormed(ParsedString)) =>
        \/ aerr = WC_ERROR_INVALID_ARGUMENT
        \/ /\ aerr = WC_ERROR_OVERFLOW
           /\ OutOfRange(ParsedString, IntegralScaled(ParsedString))

\* "0.000000001" is refused
C16_Witness ==
    /\ apc = "cs_parsed" /\ aerr = WC_ERROR_INVALID_ARGUMENT
    /\ str = Dec(<<0>>) \o <<CH_DOT>> \o Dec(<<0,0,0,0,0,0,0,0,1>>)

\* C17: on every return other than success of wc_from_cstring and
\* wc_from_bstring the caller's amount and noncanonical are not written.
C17_FailureWritesNothing ==
    (apc \in {"rt_parsed", "cs_parsed"} /\ aerr # WC_SUCCESS) =>
        amt2 = AMT_UNSET /\ noncanonical2 = NC_UNSET

\* an overflowing text was refused and the preset outputs are still there
C17_Witness ==
    /\ apc = "cs_parsed" /\ aerr = WC_ERROR_OVERFLOW
    /\ amt2 = AMT_UNSET /\ noncanonical2 = NC_UNSET


(***************************************************************************)
(* Claim codes: what is refused, validity, parsing a text                  *)
(***************************************************************************)
\* C18: wc_secret_to_string returns invalid-argument and writes no string
\* when the amount is not strictly positive or the serial is empty, and
\* wc_public_to_string returns invalid-argument when the amount is not
\* strictly positive.
C18_ToStringRefusesInvalid ==
    /\ (cpc = "sec_string"
            /\ (AmountBelowOne(secret.amount) \/ secret.serial \in {NULLSTR, <<>>}))
           => cerr = WC_ERROR_INVALID_ARGUMENT /\ cbstr = NULLSTR
    /\ (cpc = "pub_string" /\ AmountBelowOne(pub.amount))
           => cerr = WC_ERROR_INVALID_ARGUMENT /\ cbstr = NULLSTR

\* a secret without a serial is refused
C18_Witness ==
    /\ cpc = "sec_string" /\ secret.serial = NULLSTR
    /\ cerr = WC_ERROR_INVALID_ARGUMENT /\ cbstr = NULLSTR

\* C19: wc_secret_is_valid returns success exactly when the amount is at
\* least 1 and the serial is present, not empty and without a zero byte,
\* and invalid-argument otherwise; wc_public_is_valid returns success
\* exactly when the amount is at least 1.
C19_ValidExactlyWhen ==
    /\ cpc = "sec_checked"
          => cerr = IF /\ ~AmountBelowOne(secret.amount)
                       /\ secret.serial # NULLSTR
                       /\ Len(secret.serial) > 0
                       /\ \A i \in 1..Len(secret.serial) : secret.serial[i] # 0
                    THEN WC_SUCCESS ELSE WC_ERROR_INVALID_ARGUMENT
    /\ cpc = "pub_checked"
          => cerr = IF ~AmountBelowOne(pub.amount) THEN WC_SUCCESS
                    ELSE WC_ERROR_INVALID_ARGUMENT

\* a serial with a zero byte makes the secret invalid
C19_Witness ==
    /\ cpc = "sec_checked" /\ secret.amount = AmountOf(1)
    /\ secret.serial = <<CH_a, 0, CH_a>>
    /\ cerr = WC_ERROR_INVALID_ARGUMENT

\* the positions of the ':' characters of the text, and its fields
Colons == {i \in 1..Len(cbstr) : cbstr[i] = CH_COLON}
Colon1 == CHOOSE i \in Colons : \A k \in Colons : i <= k
Colon2 == CHOOSE i \in Colons \ {Colon1} : \A k \in Colons \ {Colon1} : i <= k
HasSigil == Len(cbstr) > 0 /\ cbstr[1] = CH_e
AmountText == SubSeq(cbstr, IF HasSigil THEN 2 ELSE 1, Colon1 - 1)
ParsedAmountText == wc_from_bstring(WC_ZERO, 0, AmountText)

\* C20: wc_secret_parse splits the text at its first two ':'; it returns
\* invalid-argument when there are fewer than two or the middle field is
\* not "secret", the amount parser's error when the amount field does not
\* parse, and otherwise success with the serial being all bytes after the
\* second ':' (no validity is enforced) and noncanonical being the amount
\* parser's flag or a missing leading 'e'; on failure the target secret is
\* unchanged.
C20_ParseSplitsAtTwoColons ==
    cpc = "text_parsed" =>
       IF Cardinality(Colons) < 2
          \/ SubSeq(cbstr, Colon1 + 1, Colon2 - 1) # SECRET_TAG
       THEN cerr = WC_ERROR_INVALID_ARGUMENT /\ secret2 = SECRET_PRESET
       ELSE IF ParsedAmountText.err # WC_SUCCESS
       THEN cerr = ParsedAmountText.err /\ secret2 = SECRET_PRESET
       ELSE /\ cerr = WC_SUCCESS
            /\ secret2 = [amount |-> ParsedAmountText.amt,
                          serial |-> SubSeq(cbstr, Colon2 + 1, Len(cbstr))]
            /\ cnoncanonical = IF ParsedAmountText.noncanonical # 0 \/ ~HasSigil
                               THEN 1 ELSE 0

\* "1:secret:a:e": no 'e', a serial with ':' in it
C20_Witness ==
    /\ cpc = "text_parsed" /\ cerr = WC_SUCCESS
    /\ cbstr = Dec(<<1>>) \o <<CH_COLON>> \o SECRET_TAG \o <<CH_COLON, CH_a, CH_COLON, CH_e>>
    /\ secret2 = [amount |-> [neg |-> FALSE, mag |-> <<1,0,0,0,0,0,0,0,0>>],
                  serial |-> <<CH_a, CH_COLON, CH_e>>]
    /\ cnoncanonical = 1

(***************************************************************************)
(* Claims about wc_public_parse on arbitrary texts                         *)
(***************************************************************************)
Payload == SubSeq(cbstr, Colon2 + 1, Len(cbstr))
IsLowerHex(c) == (c >= CH_0 /\ c <= CH_9) \/ (c >= CH_a /\ c <= CH_f)
IsUpperHex(c) == c >= CH_A /\ c <= CH_F
\* the value of a hexadecimal digit, whatever its case
HexValue(c) ==
    CHOOSE v \in 0..15 : hexdigits[v + 1] = (IF IsUpperHex(c) THEN c - CH_A + CH_a ELSE c)
PayloadHash == [j \in 1..HASH_BYTES |-> 16 * HexValue(Payload[2 * j - 1]) + HexValue(Payload[2 * j])]
PublicTextRefused ==
    \/ Cardinality(Colons) < 2
    \/ SubSeq(cbstr, Colon1 + 1, Colon2 - 1) # PUBLIC_TAG
    \/ Len(Payload) # HASH_HEX_LEN
    \/ \E i \in 1..Len(Payload) : ~IsLowerHex(Payload[i]) /\ ~IsUpperHex(Payload[i])

\* C21: wc_public_parse requires the middle field "public" and exactly 64
\* hexadecimal characters after the second ':'; any other payload length
\* or any other character gives invalid-argument with the output unchanged.
\* 'A'..'F' are accepted, decode to the bytes of their lowercase forms and
\* set noncanonical; noncanonical is 0 only when the amount is canonical,
\* the 'e' is present and every hex digit is lowercase.
C21_PublicParsePayload ==
    cpc = "ptext_parsed" =>
       IF PublicTextRefused
       THEN cerr = WC_ERROR_INVALID_ARGUMENT /\ pub2 = PUBLIC_PRESET
            /\ cnoncanonical = NC_UNSET
       ELSE IF ParsedAmountText.err # WC_SUCCESS
       THEN cerr = ParsedAmountText.err /\ pub2 = PUBLIC_PRESET
            /\ cnoncanonical = NC_UNSET
       ELSE /\ cerr = WC_SUCCESS
            /\ pub2 = [amount |-> ParsedAmountText.amt, hash |-> PayloadHash]
            /\ cnoncanonical \in {0, 1}
            /\ cnoncanonical = 0 <=>
                  /\ ParsedAmountText.noncanonical = 0
                  /\ HasSigil
                  /\ \A i \in 1..HASH_HEX_LEN : IsLowerHex(Payload[i])

\* "e1:public:BA78...AD": accepted, the bytes of sha256("abc"), noncanonical
C21_Witness ==
    /\ cpc = "ptext_parsed" /\ cerr = WC_SUCCESS
    /\ cbstr = <<CH_e>> \o Dec(<<1>>) \o <<CH_COLON>> \o PUBLIC_TAG \o <<CH_COLON>> \o HEX_ABC_UPPER
    /\ pub2.hash = HASH_ABC
    /\ cnoncanonical = 1

(***************************************************************************)
(* Claims about the process-wide midstate                                  *)
(***************************************************************************)
\* what a derivation reads from an initialised midstate
OBS_TAGGED == [bytes |-> TAGGED_MIDSTATE.bytes, s |-> StateOf(TAGGED_MIDSTATE)]

\* C22: once one wc_init call has completed, every derivation reads the
\* fully initialised midstate (the state after SHA256(tag) twice, byte count
\* 64), also when wc_init is called again, from any thread, while the
\* derivation is running.
C22_DerivationsReadTaggedMidstate ==
    \A t \in Threads :
        /\ mobs[t].bytes \in {OBS_NONE.bytes, OBS_TAGGED.bytes}
        /\ (mobs[t] # OBS_NONE /\ mpc[t] = "idle") => mobs[t] = OBS_TAGGED

\* a derivation that ran with no wc_init in progress read the tagged
\* midstate, after the second completed wc_init as after the first
C22_Witness ==
    /\ mdone = 2
    /\ midstate = TAGGED_MIDSTATE
    /\ \E t \in Threads : mpc[t] = "idle" /\ mobs[t] = OBS_TAGGED

(***************************************************************************)
(* Claims about the mining finalizer                                       *)
(***************************************************************************)
\* the 12 message bytes of lane i
LaneMessage(i) ==
    mnargs.nonce1 \o SubSeq(mnargs.nonce2, 4 * i + 1, 4 * i + 4) \o mnargs.final

WholeBlocksAbsorbed == mnargs.ctx.bytes[1] % BLOCK_LEN = 0 /\ mnargs.ctx.buf = <<>>

\* C23: for a context that has absorbed a whole number of blocks, the block
\* built for every lane i is the final padded block of (prefix, nonce1,
\* nonce2[4i..4i+3], final): the 12 message bytes, 0x80, zeros and the
\* big-endian bit length (bytes + 12) * 8; hashes[32i..32i+31] is the scalar
\* hash of that message, and the context is not modified.
C23_LanesEqualScalarHash ==
    (mnpc = "done" /\ WholeBlocksAbsorbed) =>
        /\ mnctx = mnargs.ctx
        /\ Len(mnhashes) = LANES * HASH_BYTES
        /\ \A i \in 0..(LANES - 1) :
            /\ SubSeq(mnblocks[i + 1], 1, TAIL_LEN) = LaneMessage(i)
            /\ mnblocks[i + 1][TAIL_LEN + 1] = PAD_BYTE
            /\ \A k \in (TAIL_LEN + 2)..56 : mnblocks[i + 1][k] = 0
            /\ SubSeq(mnblocks[i + 1], 57, 64) = BE64(U64Shl3(U64Plus(mnargs.ctx.bytes, TAIL_LEN)))
            /\ <<mnblocks[i + 1]>> = <<ScalarPadded(mnargs.ctx, LaneMessage(i))>>
            /\ SubSeq(mnhashes, HASH_BYTES * i + 1, HASH_BYTES * i + HASH_BYTES)
                    = ScalarHash(mnargs.ctx, LaneMessage(i))

\* the call of the test, and a call on a context of three blocks whose
\* lanes differ
C23_Witness ==
    /\ mnpc = "done"
    /\ WholeBlocksAbsorbed
    /\ mnargs.ctx.bytes = U64Of(192)
    /\ mnargs.nonce2 = NONCES_TEST
    /\ SubSeq(mnhashes, 1, HASH_BYTES) # SubSeq(mnhashes, 7 * HASH_BYTES + 1, 8 * HASH_BYTES)
    /\ SubSeq(mnblocks[1], 57, 64) = <<0, 0, 0, 0, 0, 0, 6, 96>>

(***************************************************************************)
(* Claims about the secret slot                                            *)
(***************************************************************************)
\* C24: wc_secret_destroy on a secret that holds a serial returns success
\* and leaves amount = 0 and serial = null, the serial released by this
\* call and by no earlier one; on a secret whose serial is null it returns
\* invalid-argument and leaves the secret unchanged, releasing nothing.  No
\* string is ever released twice.
C24_DestroyReleasesOnce ==
    /\ \A b \in 1..Len(heap) : heap[b].released <= 1
    /\ sop = "destroy" =>
        IF sprev.slot.serial # NULL_PTR
        THEN /\ serr = WC_SUCCESS
             /\ slot = [amount |-> WC_ZERO, serial |-> NULL_PTR]
             /\ sprev.heap[sprev.slot.serial].released = 0
             /\ heap = [sprev.heap EXCEPT ![sprev.slot.serial].released = 1]
        ELSE /\ serr = WC_ERROR_INVALID_ARGUMENT
             /\ slot = sprev.slot
             /\ heap = sprev.heap

\* a second destroy, refused, after a first that released the serial of a
\* secret with a non-zero amount
C24_Witness ==
    /\ sop = "destroy"
    /\ serr = WC_ERROR_INVALID_ARGUMENT
    /\ sprev.slot = [amount |-> WC_ZERO, serial |-> NULL_PTR]
    /\ \E b \in 1..Len(heap) : heap[b].released = 1 /\ heap[b].text = TEXT_ABC

\* the number of the application's variables that hold bstring b
Owners(b) == (IF slot.serial = b THEN 1 ELSE 0) + (IF hnd = b THEN 1 ELSE 0)

\* the string the last call was given
GivenString == IF sarg = ARG_NULL THEN NULL_PTR ELSE Deref(sprev, sarg)

PreviousReleasedOnce ==
    sprev.slot.serial # NULL_PTR =>
        sprev.heap[sprev.slot.serial].released = 0 /\ heap[sprev.slot.serial].released = 1

\* C28: across any sequence of the constructors, wc_secret_parse and
\* wc_secret_destroy on one slot every serial buffer has exactly one owner:
\* a successful constructor or parse releases the serial held before
\* exactly once and installs the new one, a failed one leaves the slot
\* unchanged, the copy constructor leaves the caller's string untouched, the
\* move constructor installs the caller's own buffer without copying and
\* sets the caller's handle to null; no buffer is leaked, released twice or
\* reachable from the slot after its release.
C28_SerialHasOneOwner ==
    /\ \A b \in 1..Len(heap) :
        /\ heap[b].released <= 1
        /\ heap[b].released = 0 => Owners(b) = 1
        /\ heap[b].released = 1 => slot.serial # b
    /\ (sop \in {"new", "cstring", "move", "copy", "parse"} /\ serr # WC_SUCCESS) =>
            slot = sprev.slot /\ heap = sprev.heap /\ hnd = sprev.hnd
    /\ (sop \in {"new", "cstring", "copy", "parse"} /\ serr = WC_SUCCESS) =>
            /\ PreviousReleasedOnce
            /\ slot.serial = Len(sprev.heap) + 1
            /\ Len(heap) = Len(sprev.heap) + 1
    /\ (sop = "copy" /\ serr = WC_SUCCESS) =>
            /\ heap[slot.serial].text = sprev.heap[GivenString].text
            /\ sarg = ARG_HND => hnd = sprev.hnd /\ heap[hnd] = sprev.heap[hnd]
    /\ (sop = "move" /\ serr = WC_SUCCESS) =>
            /\ Len(heap) = Len(sprev.heap)
            /\ slot.serial = GivenString
            /\ heap[slot.serial] = sprev.heap[GivenString]
            /\ Deref(SlotState, sarg) = NULL_PTR \/ sarg = ARG_SELF
            /\ sarg = ARG_HND => PreviousReleasedOnce

\* a move of the application's string into a slot that held a serial: the
\* old serial released once, the slot holding the application's buffer
C28_Witness ==
    /\ sop = "move"
    /\ sarg = ARG_HND
    /\ serr = WC_SUCCESS
    /\ sprev.slot.serial # NULL_PTR
    /\ heap[sprev.slot.serial].released = 1
    /\ slot.serial = sprev.hnd
    /\ hnd = NULL_PTR

(***************************************************************************)
(* Claims about the in-place conversion                                    *)
(***************************************************************************)
RecordCount == Len(eargs.lo.whens)

\* C25: with sizeof(wc_db_terms_t) + sizeof(bstring) <= sizeof(wc_terms_t),
\* converting from the highest index down to 0 never overwrites the time
\* or the text pointer of a database record still to be converted: on
\* success output record i carries the text pointer of database record i
\* and the conversion of its time, for every i below the returned count.
C25_InPlaceKeepsUnconverted ==
    epc = "done" =>
        /\ ~eres.clobbered
        /\ eres.ret = WC_SUCCESS =>
            \A i \in 0..(RecordCount - 1) :
                /\ emem[TextAt(eargs.layout, i)] = Cell(K_TEXT, i, i + 1, 0)
                /\ \A k \in 1..eargs.layout.tm :
                    emem[TmAt(eargs.layout, i) + k - 1]
                        = Cell(K_TM, i, gmtime_r(eargs.lo.whens[i + 1]).tm.utc, k)

\* MaxRecords records converted in the smallest layout, where output
\* record 0 ends on the cells that held database record 1
C25_Witness ==
    /\ epc = "done"
    /\ eres.ret = WC_SUCCESS
    /\ RecordCount = MaxRecords
    /\ eargs.layout.rsz = 3
    /\ emem[TextAt(eargs.layout, 0)].kind = K_TEXT
    /\ TextAt(eargs.layout, 0) = DbWhenAt(eargs.layout, 1)

\* C26: when the time conversion of record i fails the function returns
\* db-corrupt after releasing the text of every returned record exactly
\* once, the records below i through their database form and the others
\* through their converted form: nothing is leaked, nothing released twice.
C26_FailureReleasesEachOnce ==
    (epc = "done" /\ eres.ret = WC_ERROR_DB_CORRUPT /\ eargs.lo.ret = WC_SUCCESS) =>
        /\ eres.wild = 0
        /\ Len(eres.released) = RecordCount
        /\ \A b \in 1..RecordCount : eres.released[b] = 1

\* a failure at a record that has records below it and above it, the
\* failed gmtime_r having written into terms[i].when
C26_Witness ==
    /\ epc = "done"
    /\ eres.ret = WC_ERROR_DB_CORRUPT
    /\ eargs.junk
    /\ RecordCount = MaxRecords
    /\ eargs.lo.whens[2] = TIME_T_FAR
    /\ eargs.lo.whens[3] # TIME_T_FAR
    /\ eargs.lo.whens[4] # TIME_T_FAR
    /\ \A b \in 1..RecordCount : eres.released[b] = 1

(***************************************************************************)
(* Claims about the scrubbing of derivation buffers                        *)
(***************************************************************************)
AllZero(b, len) == \A k \in 1..len : b[k] = 0

\* C27: when wc_derive_serials returns for a count >= 1 the first 48 bytes
\* (root, chaincode, depth) of each of the min(count, 8) blocks it filled
\* are zero, and wc_derive_serial has zeroed its 64 byte temporary after
\* copying it to the result, whether it succeeds or runs out of memory.
C27_BuffersScrubbed ==
    /\ (dpc = "loop" /\ dargs.count >= 1) =>
            \A l \in 1..Min(dargs.count, LANES) :
                Len(dblocks[l]) = BLOCK_LEN /\ AllZero(dblocks[l], CLEANSE_LEN)
    /\ dserr # ERR_UNSET =>
            /\ Len(dbuf) = SERIAL_LEN
            /\ AllZero(dbuf, SERIAL_LEN)
            /\ dserr \in {WC_SUCCESS, WC_ERROR_OUT_OF_MEMORY}
            /\ dserr = WC_SUCCESS =>
                \A k \in 1..SERIAL_LEN :
                    \E h \in 1..16 : dsingle[(dn - 1) * SERIAL_LEN + k] = hexdigits[h]

\* a batch of more than eight serials from a non-zero root, chaincode and
\* depth, and a wc_derive_serial that ran out of memory after one that
\* succeeded
C27_Witness ==
    /\ dpc = "loop"
    /\ dargs.count > LANES
    /\ dargs.root = HDROOT
    /\ dargs.chaincode # U64Of(0)
    /\ dargs.depth # U64Of(0)
    /\ AllZero(dblocks[LANES], CLEANSE_LEN)
    /\ dblocks[LANES][CLEANSE_LEN + 1] = 128
    /\ dn >= 1
    /\ dserr = WC_ERROR_OUT_OF_MEMORY
    /\ AllZero(dbuf, SERIAL_LEN)

(***************************************************************************)
(* Claims about what the acceptance reported rests on                      *)
(***************************************************************************)
\* C29: wc_wallet_terms_of_service returns success with a non-zero accepted
\* only if, on this wallet and for its cached terms, a storage query has
\* returned success reporting the terms as accepted or a prompt has
\* returned success with accepted set; what a callback wrote before
\* returning an error never makes this or a later call report acceptance.
C29_AcceptanceRestsOnSuccess ==
    (wcall.op = "tos" /\ wcall.ret = WC_SUCCESS /\ "accepted" \in wcall.outs
        /\ wcall.out.accepted # 0)
      => wghost.granted

\* acceptance reported from the cache, by a call that made no query and no
\* prompt, after a prompt that returned success with accepted set
C29_Witness ==
    /\ wcall.op = "tos"
    /\ wcall.ret = WC_SUCCESS
    /\ wcall.out.accepted = 1
    /\ wcall.trace = <<>>
    /\ wghost.granted
    /\ host.db[appWallet.terms] # 0


(***************************************************************************)
(* C30: live facade handles                                                *)
(***************************************************************************)
\* the codes the facades answer with when the wrapped handle is null
GUARD_CODES == {WC_ERROR_DB_CLOSED, WC_ERROR_NOT_CONNECTED, WC_ERROR_HEADLESS}

\* the facade operations that ask the host something
QUERIES == {"get_terms", "terms_accepted", "any_terms", "show_terms"}

LiveStorage(w) ==
    w.ptr # 0 => (w.db # 0 /\ w.log # 0 /\ w.cb # NULL_CALLBACKS /\ w.cb # {})

LiveServer(c) == c.ptr # 0 => (c.conn # 0 /\ c.cb # NULL_CALLBACKS /\ c.cb # {})

LiveUi(ui) == ui.ptr # 0 => (ui.hwnd # 0 /\ ui.cb # NULL_CALLBACKS /\ ui.cb # {})

\* every handle the application or its wallet holds wraps non-null host
\* handles and a callback table
LiveHandlesWrapNonNull ==
    /\ LiveStorage(app.storage) /\ LiveServer(app.server) /\ LiveUi(app.ui)
    /\ appWallet.ptr # 0 =>
          /\ appWallet.storage.ptr # 0 /\ LiveStorage(appWallet.storage)
          /\ appWallet.server.ptr # 0 /\ LiveServer(appWallet.server)
          /\ appWallet.ui.ptr # 0 /\ LiveUi(appWallet.ui)

\* every query of the last call reached the host's callback when the
\* host's table provides it
QueriesForwarded ==
    \A i \in 1..Len(wcall.trace) :
        (wcall.trace[i].f \in QUERIES /\ wcall.trace[i].f \in host.cbs) => wcall.trace[i].cb

\* C30 as stated: a live handle wraps non-null log, database, connection
\* and window handles and a callback table; no operation on it returns
\* db-closed, not-connected or headless; every query is forwarded to the
\* host callback that is provided.
C30_LiveHandleNeverClosedCode ==
    /\ LiveHandlesWrapNonNull
    /\ QueriesForwarded
    /\ \A i \in 1..Len(wcall.trace) : wcall.trace[i].ret \notin GUARD_CODES

\* C30 amended: a live handle wraps non-null log, database, connection and
\* window handles and a callback table; every query is forwarded to the
\* host callback that is provided; an operation on it returns db-closed,
\* not-connected or headless only when the host's callback answered so,
\* never from the library's own test of the wrapped handle.
C30_LiveHandleForwards ==
    /\ LiveHandlesWrapNonNull
    /\ QueriesForwarded
    /\ \A i \in 1..Len(wcall.trace) :
          wcall.trace[i].ret \in GUARD_CODES => wcall.trace[i].cb

\* a call on a configured wallet whose three queries and the store all
\* reached the host, the store answered with db-closed by the host
C30_Witness ==
    /\ wcall.op = "tos" /\ appWallet.ptr # 0
    /\ appWallet.storage.db = wghost.db /\ appWallet.storage.db # 0
    /\ Len(wcall.trace) = 4
    /\ \A i \in 1..4 : wcall.trace[i].cb
    /\ wcall.trace[4].f = "accept_terms" /\ wcall.trace[4].ret = WC_ERROR_DB_CLOSED

====
